---- MODULE Spec2Model ----
(***************************************************************************)
(* A model of homebridge-sonoff-lan: the discovery handlers of the         *)
(* platform (platform.ts), the LAN-mode client and record assembler        *)
(* (sonoffLanModeApi.ts and the sonoffApi copy in commonApi.ts), the       *)
(* crypto envelope, and the two accessory handlers (platformAccessory,     *)
(* held in ewelinkApi.ts from line 433).                                   *)
(*                                                                         *)
(* Text is a sequence of tokens.  A byte is the index of a token in        *)
(* Alphabet, so utf8 and base64 are two different codings of the same      *)
(* bytes and a JSON text can be told from base64 text.  AES-128-CBC is a   *)
(* chained shift cipher over the bytes with one padding byte: it keeps the *)
(* properties of the real cipher the code depends on (keyed, chained from  *)
(* the IV, padding checked by final(), key and IV lengths checked).        *)
(***************************************************************************)
EXTENDS Integers, Sequences, FiniteSets, Bags, TLC

\* ------------------------------------------------------------------ bounds
\* the host and the discovery library deliver an event only while fewer
\* than this many requests are pending
MaxInflight == 1
\* how many 'available' events the discovery library delivers
MaxAvail == 2
\* the largest value Date.now() returns
MaxNow == 0
\* how many values crypto.randomBytes(16) may return
MaxIv == 1

\* ------------------------------------------------------------- text, bytes
Alphabet ==
  << "{", "}", "[", "]", "null", "switch", "switches", "outlet", "on", "off",
     "configure", "pulses", "sledOnline", "staMac", "cfgA", "cfgB", "plsA",
     "mac1", "0", "1", "2", "undefined", "pad" >>

B64Alphabet ==
  << "A", "B", "C", "D", "E", "F", "G", "H", "I", "J", "K", "L", "M", "N",
     "O", "P", "Q", "R", "S", "T", "U", "V", "W" >>

NBytes == Len(Alphabet)

Bytes == 0 .. (NBytes - 1)

\* the position of x in the table s, 0 when x is not in it
IndexOf(s, x) ==
  IF \E i \in 1 .. Len(s) : s[i] = x
  THEN CHOOSE i \in 1 .. Len(s) : s[i] = x
  ELSE 0

\* Buffer.from(text, 'utf8')
Utf8Bytes(text) == [i \in 1 .. Len(text) |-> IndexOf(Alphabet, text[i]) - 1]

\* buffer.toString('utf8')
Utf8Text(bytes) == [i \in 1 .. Len(bytes) |-> Alphabet[bytes[i] + 1]]

\* buffer.toString('base64')
Base64Text(bytes) == [i \in 1 .. Len(bytes) |-> B64Alphabet[bytes[i] + 1]]

IsB64(tok) == IndexOf(B64Alphabet, tok) > 0

\* Buffer.from(text, 'base64'): characters outside the base64 alphabet are
\* skipped
Base64Bytes(text) ==
  LET valid == SelectSeq(text, IsB64)
  IN  [i \in 1 .. Len(valid) |-> IndexOf(B64Alphabet, valid[i]) - 1]

\* the decimal digits of a number, as text
RECURSIVE DecStr(_)
DecStr(n) ==
  LET d == << "0", "1", "2", "3", "4", "5", "6", "7", "8", "9" >>
  IN  IF n < 10 THEN << d[n + 1] >> ELSE DecStr(n \div 10) \o << d[(n % 10) + 1] >>

\* ---------------------------------------------------------------- JS values
Undefined == [t |-> "undefined"]

Null == [t |-> "null"]

\* a value an  if (value)  takes for false
Falsy(value) == value \in {Undefined, Null}

\* a JavaScript array: its length and its own indices (it may have holes)
EmptyArray == [len |-> 0, el |-> << >>]

ArraySet(a, i, v) ==
  [len |-> IF i + 1 > a.len THEN i + 1 ELSE a.len,
   el  |-> (i :> v) @@ a.el]

ArrayHas(a, i) == i \in DOMAIN a.el

\* the own indices of an array, in the ascending order forEach visits them
RECURSIVE OwnIndices(_, _)
OwnIndices(a, from) ==
  IF from >= a.len THEN << >>
  ELSE (IF ArrayHas(a, from) THEN << from >> ELSE << >>) \o OwnIndices(a, from + 1)

ArrayOf(seq) == [len |-> Len(seq), el |-> [i \in 0 .. (Len(seq) - 1) |-> seq[i + 1]]]

\* ---------------------------------------------------------------- JSON
PowerStateOn == "on"
PowerStateOff == "off"

PlugObj(sw) == [t |-> "plug", switch |-> sw]

StripObj(sws, cfg, pls, sled, mac) ==
  [t |-> "strip", switches |-> sws, configure |-> cfg, pulses |-> pls,
   sledOnline |-> sled, staMac |-> mac]

EmptyObj == [t |-> "empty"]

StripSwitch(sw, outlet) == [switch |-> sw, outlet |-> outlet]

\* JSON.stringify of one element of a switches array: a hole is written null
RECURSIVE StringifySwitches(_, _)
StringifySwitches(a, from) ==
  IF from >= a.len THEN << >>
  ELSE (IF ArrayHas(a, from)
        THEN << "{", "switch", a.el[from].switch,
                "outlet" >> \o DecStr(a.el[from].outlet) \o << "}" >>
        ELSE << "null" >>)
       \o StringifySwitches(a, from + 1)

\* JSON.stringify
JsonStringify(o) ==
  CASE o.t = "empty" -> << "{", "}" >>
    [] o.t = "plug"  -> << "{", "switch", o.switch, "}" >>
    [] o.t = "strip" ->
         << "{", "switches", "[" >> \o StringifySwitches(o.switches, 0)
         \o << "]", "configure", o.configure, "pulses", o.pulses,
               "sledOnline", o.sledOnline, "staMac", o.staMac, "}" >>

SyntaxError == [t |-> "SyntaxError"]

Digits == << "0", "1", "2" >>

\* the elements of a switches array, read from position i of the text up to
\* the closing bracket; next = 0 when the text is not an array
RECURSIVE ParseSwitches(_, _, _)
ParseSwitches(text, i, acc) ==
  IF i > Len(text) THEN [next |-> 0, arr |-> acc]
  ELSE IF text[i] = "]" THEN [next |-> i + 1, arr |-> acc]
  ELSE IF text[i] = "null"
    THEN ParseSwitches(text, i + 1, [len |-> acc.len + 1, el |-> acc.el])
  ELSE IF /\ i + 5 <= Len(text)
          /\ text[i] = "{" /\ text[i + 1] = "switch"
          /\ text[i + 2] \in {PowerStateOn, PowerStateOff}
          /\ text[i + 3] = "outlet" /\ IndexOf(Digits, text[i + 4]) > 0
          /\ text[i + 5] = "}"
    THEN ParseSwitches(text, i + 6,
           ArraySet(acc, acc.len,
                    StripSwitch(text[i + 2], IndexOf(Digits, text[i + 4]) - 1)))
  ELSE [next |-> 0, arr |-> acc]

\* the members of a strip object after its switches array arr, which ends
\* before position n of the text (n = 0: there was no array)
ParseMembers(text, arr, n) ==
  IF /\ n > 0 /\ Len(text) = n + 8
     /\ text[n] = "configure" /\ text[n + 2] = "pulses"
     /\ text[n + 4] = "sledOnline" /\ text[n + 6] = "staMac"
     /\ text[n + 8] = "}"
  THEN StripObj(arr, text[n + 1], text[n + 3], text[n + 5], text[n + 7])
  ELSE SyntaxError

ParseStrip(text, p) == ParseMembers(text, p.arr, p.next)

\* JSON.parse: the object, or SyntaxError (thrown)
JsonParse(text) ==
  IF text = << "{", "}" >> THEN EmptyObj
  ELSE IF text = << "null" >> THEN Null
  ELSE IF /\ Len(text) = 4 /\ text[1] = "{" /\ text[2] = "switch"
          /\ text[3] \in {PowerStateOn, PowerStateOff} /\ text[4] = "}"
    THEN PlugObj(text[3])
  ELSE IF /\ Len(text) >= 3 /\ text[1] = "{" /\ text[2] = "switches"
          /\ text[3] = "["
    THEN ParseStrip(text, ParseSwitches(text, 4, EmptyArray))
  ELSE SyntaxError

\* ---------------------------------------------------------------- optionals
\* a value that may be undefined: text (a field of the TXT record) ...
Some(v) == [has |-> TRUE, v |-> v]

NoText == [has |-> FALSE, v |-> << >>]

\* ... or a secret (the deviceKey of a device)
NoKey == [has |-> FALSE, v |-> ""]

\* JavaScript's string coercion, as in  data1 += data2
ToStr(opt) == IF opt.has THEN opt.v ELSE << "undefined" >>

\* ---------------------------------------------------------------- crypto
\* the secrets the model knows a digest of
Secrets == << "", "k1", "k2" >>

Md5Len == 16

IvLen == 16

AesKeyLen == 16

RECURSIVE SumSeq(_)
SumSeq(s) == IF s = << >> THEN 0 ELSE Head(s) + SumSeq(Tail(s))

\* a faulty digest in hex form: two characters for each byte
Md5Digest_hex(apiKey) ==
  [i \in 1 .. (2 * Md5Len) |-> (IndexOf(Secrets, apiKey) * 5 + 3 * i) % 16]

\* crypto.createHash('md5').update(Buffer.from(apiKey, 'utf8')).digest():
\* the raw digest, Md5Len bytes
Md5Digest(apiKey) ==
  [i \in 1 .. Md5Len |-> (IndexOf(Secrets, apiKey) * 5 + 3 * i) % NBytes]

PadByte == IndexOf(Alphabet, "pad") - 1

\* the chaining of CBC: each byte of the output depends on the key, on the
\* plaintext byte and on the previous byte of the output (the IV for the
\* first)
CbcEncrypt(plain, k, iv0) ==
  LET c[i \in 0 .. Len(plain)] ==
        IF i = 0 THEN iv0 ELSE (plain[i] + c[i - 1] + k) % NBytes
  IN  [i \in 1 .. Len(plain) |-> c[i]]

\* a faulty decryption that chains every byte from the IV
CbcDecrypt_unchained(cipher, k, iv0) ==
  [i \in 1 .. Len(cipher) |-> (cipher[i] - iv0 - k + 2 * NBytes) % NBytes]

CbcDecrypt(cipher, k, iv0) ==
  [i \in 1 .. Len(cipher) |->
     (cipher[i] - (IF i = 1 THEN iv0 ELSE cipher[i - 1]) - k + 2 * NBytes) % NBytes]

\* crypto.createCipheriv / createDecipheriv ('aes-128-cbc', key, iv): the
\* error they throw, or "none"
CipherivError(key, iv) ==
  IF Len(key) # AesKeyLen THEN "ERR_CRYPTO_INVALID_KEYLEN"
  ELSE IF Len(iv) # IvLen THEN "ERR_CRYPTO_INVALID_IV"
  ELSE "none"

\* encrypt(plainText, apiKey); iv is the value of crypto.randomBytes(16)
encrypt(plainText, apiKey, iv) ==
  LET cryptkey == Md5Digest(apiKey)
  IN  [data |-> CbcEncrypt(Utf8Bytes(plainText) \o << PadByte >>,
                           SumSeq(cryptkey) % NBytes, SumSeq(iv) % NBytes),
       iv   |-> iv]

\* decipher.final() after decipher.update(cipherText): the padding is checked
\* and removed
decipher_final(plain) ==
  IF plain = << >> \/ plain[Len(plain)] # PadByte
  THEN [threw |-> "ERR_OSSL_BAD_DECRYPT", text |-> << >>]
  ELSE [threw |-> "none", text |-> Utf8Text(SubSeq(plain, 1, Len(plain) - 1))]

\* the tail of decrypt, from crypto.createDecipheriv on; err is the error
\* createDecipheriv throws for the key and the IV
createDecipheriv(err, cryptkey, ivBuffer, cipherText) ==
  IF err # "none" THEN [threw |-> err, text |-> << >>]
  ELSE decipher_final(CbcDecrypt(cipherText, SumSeq(cryptkey) % NBytes,
                                 SumSeq(ivBuffer) % NBytes))

\* the body of decrypt once the three buffers are made
decryptBuffers(cryptkey, ivBuffer, cipherText) ==
  createDecipheriv(CipherivError(cryptkey, ivBuffer), cryptkey, ivBuffer, cipherText)

\* decrypt(encryptedData, apiKey, iv): the plain text, or the error thrown.
\* encryptedData and iv are optional text: Buffer.from(undefined) throws.
decrypt(encryptedData, apiKey, iv) ==
  IF ~iv.has \/ ~encryptedData.has
  THEN [threw |-> "ERR_INVALID_ARG_TYPE", text |-> << >>]
  ELSE decryptBuffers(Md5Digest(apiKey), Base64Bytes(iv.v), Base64Bytes(encryptedData.v))

\* -------------------------------------------------- devices on the network
Devices == {"p1", "s1"}

\* the 'type' field a device announces
DeviceType(d) == IF d = "p1" THEN "plug" ELSE "strip"

\* the key the device itself encrypts with
DeviceSecret(d) == IF d = "p1" THEN "k1" ELSE "k2"

\* the deviceKeys of the configuration: no entry, the empty key or the right
\* key for each device
Configs ==
  { [d \in Devices |-> NoKey],
    [d \in Devices |-> Some("")],
    [d \in Devices |-> Some(DeviceSecret(d))] }

\* the devices the host may hold a cached accessory of
Cached == {"p1"}

\* the values crypto.randomBytes(16) may return
RandomIvs == {[i \in 1 .. IvLen |-> b] : b \in 1 .. MaxIv}

PlugPayloads == {PlugObj(sw) : sw \in {PowerStateOn, PowerStateOff}}

\* the outlets a strip reports: from 0 on, or not
OutletLists == { << 0, 1 >>, << 1, 2 >> }

\* a strip reports one outlet on and one off
StripPayloads ==
  { StripObj(ArrayOf(<< StripSwitch(IF os[1] = 0 THEN PowerStateOn ELSE PowerStateOff, os[1]),
                        StripSwitch(IF os[1] = 0 THEN PowerStateOff ELSE PowerStateOn, os[2]) >>),
             IF os[1] = 0 THEN "cfgA" ELSE "cfgB", "plsA", PowerStateOn, "mac1") :
      os \in OutletLists }

Payloads(d) == IF DeviceType(d) = "plug" THEN PlugPayloads ELSE StripPayloads

Addresses(d) == << [host |-> d, port |-> 8081], [host |-> "alt", port |-> 8081] >>

\* an MDNSService: the TXT record (data) and the resolved addresses
Service(d, enc, data) ==
  [name |-> d, id |-> d, type |-> DeviceType(d), encrypt |-> enc,
   data |-> data, addresses |-> Addresses(d)]

\* no service: the event is not one of the discovery library
NoService == Service("", "absent", << >>)

\* the IV a device sends with its record
DeviceIv == [i \in 1 .. IvLen |-> 2]

\* the payload as the device announces it: plain, or encrypted with its secret
PlainService(d, p) == Service(d, "absent", "data1" :> JsonStringify(p))

EncryptedService(d, p) ==
  LET e == encrypt(JsonStringify(p), DeviceSecret(d), DeviceIv)
  IN  Service(d, "true",
              ("data1" :> Base64Text(e.data)) @@ ("iv" :> Base64Text(e.iv)))

\* one payload of the device in the other shapes a record may have
OddPayload(d) == CHOOSE q \in Payloads(d) : TRUE

OddText(d) == JsonStringify(OddPayload(d))

OddCipher(d) == encrypt(OddText(d), DeviceSecret(d), DeviceIv)

\* the text split over data1 and data2
SplitService(d) ==
  Service(d, "absent",
          ("data1" :> SubSeq(OddText(d), 1, 2))
          @@ ("data2" :> SubSeq(OddText(d), 3, Len(OddText(d)))))

\* text that is not JSON
MalformedService(d) == Service(d, "absent", "data1" :> << "{", "switch" >>)

\* an empty data1, and no data1 at all
EmptyService(d) == Service(d, "absent", "data1" :> << >>)

NoDataService(d) == Service(d, "absent", << >>)

\* the JSON text null
NullService(d) == Service(d, "absent", "data1" :> << "null" >>)

\* the ciphertext split over data1 and data2
SplitEncryptedService(d) ==
  Service(d, "true",
          ("data1" :> SubSeq(Base64Text(OddCipher(d).data), 1, 3))
          @@ ("data2" :> SubSeq(Base64Text(OddCipher(d).data), 4,
                                Len(Base64Text(OddCipher(d).data))))
          @@ ("iv" :> Base64Text(OddCipher(d).iv)))

\* an IV of 2 bytes, an IV the ciphertext was not made with, no IV
ShortIvService(d) ==
  Service(d, "true",
          ("data1" :> Base64Text(OddCipher(d).data))
          @@ ("iv" :> SubSeq(Base64Text(OddCipher(d).iv), 1, 2)))

ForeignIvService(d) ==
  Service(d, "true",
          ("data1" :> Base64Text(OddCipher(d).data))
          @@ ("iv" :> Base64Text([i \in 1 .. IvLen |-> 1])))

NoIvService(d) == Service(d, "true", "data1" :> Base64Text(OddCipher(d).data))

OddServices(d) ==
  { SplitService(d), MalformedService(d), EmptyService(d), NoDataService(d),
    NullService(d),
    SplitEncryptedService(d), ShortIvService(d), ForeignIvService(d),
    NoIvService(d) }

\* the records a device may announce
ServicesOf(d) ==
  {PlainService(d, p) : p \in Payloads(d)}
  \cup {EncryptedService(d, p) : p \in Payloads(d)}
  \cup OddServices(d)

Services == UNION {ServicesOf(d) : d \in Devices}

\* the records a device announces again, in 'updated' and 'unavailable'
UpdatesOf(d) ==
  {PlainService(d, p) : p \in Payloads(d)}
  \cup { MalformedService(d), ShortIvService(d) }

Updates == UNION {UpdatesOf(d) : d \in Devices}

\* service.data.get(key)
DataGet(service, key) ==
  IF key \in DOMAIN service.data THEN Some(service.data[key]) ELSE NoText

\* service.data.has(key)
DataHas(service, key) == key \in DOMAIN service.data

\* ------------------------------------------------------- the LAN-mode client
\* a faulty test that takes the empty key for a key
Truthy_defined(apiKey) == apiKey.has

\* JavaScript truthiness of an optional secret, as in  if (apiKey)
Truthy(apiKey) == apiKey.has /\ apiKey.v # ""

\* getBaseUri(device): protocol, host and port of the first address
getBaseUri(device) ==
  [host |-> device.addresses[1].host, port |-> device.addresses[1].port]

Uri(base, path) == [host |-> base.host, port |-> base.port, path |-> path]

\* a JavaScript string, as against a number, in a field of a payload
JsString(text) == [js |-> "string", text |-> text]

\* a faulty conversion that leaves the time a number
DateNowToString_number(now) == [js |-> "number", text |-> DecStr(now)]

\* Date.now().toString()
DateNowToString(now) == JsString(DecStr(now))

\* doApiCall(log, uri, deviceId, data, apiKey): the request handed to doPost.
\* now is the value of Date.now(), rnd the value of crypto.randomBytes(16).
doApiCall(uri, deviceId, data, apiKey, now, rnd) ==
  LET plain == JsonStringify(data)
      encryptionResult == encrypt(plain, apiKey.v, rnd)
  IN  [uri |-> uri,
       payload |->
         IF Truthy(apiKey)
         THEN [sequence |-> DateNowToString(now),
               selfApikey |-> JsString(<< "1", "2", "3" >>),
               deviceid |-> deviceId,
               data |-> Base64Text(encryptionResult.data),
               encrypt |-> TRUE,
               iv |-> Some(Base64Text(encryptionResult.iv))]
         ELSE [sequence |-> DateNowToString(now),
               selfApikey |-> JsString(<< "1", "2", "3" >>),
               deviceid |-> deviceId,
               data |-> plain,
               encrypt |-> FALSE,
               iv |-> NoText]]

\* info(log, device)
info(device, now, rnd) ==
  doApiCall(Uri(getBaseUri(device), "/zeroconf/info"), device.deviceId,
            EmptyObj, device.deviceKey, now, rnd)

\* toggleSwitchStatus(log, device, on)
toggleSwitchStatus(device, on, now, rnd) ==
  doApiCall(Uri(getBaseUri(device), "/zeroconf/switch"), device.deviceId,
            PlugObj(IF on THEN "on" ELSE "off"), device.deviceKey, now, rnd)

\* setSwitchesStatus(log, device, data)
setSwitchesStatus(device, data, now, rnd) ==
  doApiCall(Uri(getBaseUri(device), "/zeroconf/switches"), device.deviceId,
            data, device.deviceKey, now, rnd)

\* ------------------------------------------------------ the record assembler
\* a faulty joining that puts data2 before data1
JoinData_reordered(service) ==
  IF ~DataHas(service, "data2") THEN DataGet(service, "data1")
  ELSE Some(service.data["data2"] \o ToStr(DataGet(service, "data1")))

\* the joining of data1 .. data4 at the head of extractDataFromDnsService
JoinData(service) ==
  LET data1 == DataGet(service, "data1")
  IN  IF ~DataHas(service, "data2") THEN data1
      ELSE LET j2 == ToStr(data1) \o service.data["data2"]
           IN  IF ~DataHas(service, "data3") THEN Some(j2)
               ELSE LET j3 == j2 \o service.data["data3"]
                    IN  IF ~DataHas(service, "data4") THEN Some(j3)
                        ELSE Some(j3 \o service.data["data4"])

\* what the middle of extractDataFromDnsService leaves: the text to parse
\* (data), whether decrypt was invoked (called), what it threw, what was logged
Decrypted(d) ==
  [data |-> Some(d.text), threw |-> d.threw, called |-> TRUE, logged |-> "none"]

\* the middle of extractDataFromDnsService, on the joined text data1 and the
\* iv of the record: data stays undefined for an encrypted device without key
DecryptData(device, data1, iv) ==
  IF device.encrypted
  THEN IF device.deviceKey.has
       THEN Decrypted(decrypt(data1, device.deviceKey.v, iv))
       ELSE [data |-> NoText, threw |-> "none", called |-> FALSE,
             logged |-> "Missing api_key"]
  ELSE [data |-> data1, threw |-> "none", called |-> FALSE, logged |-> "none"]

DataToParse(service, device) ==
  DecryptData(device, JoinData(service), DataGet(service, "iv"))

\* the outcome of an extraction: the value returned or the error thrown, and
\* what was done on the way
Extracted(value, threw, x, parsedUndefined) ==
  [value |-> value, threw |-> threw, decryptCalled |-> x.called,
   logged |-> x.logged, parsedUndefined |-> parsedUndefined]

\* return JSON.parse(data), parsed being the outcome of JSON.parse
ReturnParsed(parsed, x) ==
  IF parsed = SyntaxError THEN Extracted(Undefined, "SyntaxError", x, FALSE)
  ELSE Extracted(parsed, "none", x, FALSE)

\* the last statement of extractDataFromDnsService of sonoffLanModeApi.ts:
\*   return (data ? JSON.parse(data) : undefined)
ReturnData(x) ==
  IF x.threw # "none" THEN Extracted(Undefined, x.threw, x, FALSE)
  ELSE IF ~x.data.has \/ x.data.v = << >>
    THEN Extracted(Undefined, "none", x, FALSE)
  ELSE ReturnParsed(JsonParse(x.data.v), x)

extractDataFromDnsService(service, device) == ReturnData(DataToParse(service, device))

\* the last statement of extractDataFromDnsService of sonoffApi
\* (commonApi.ts):  return JSON.parse(data)
ReturnData_sonoffApi(x) ==
  IF x.threw # "none" THEN Extracted(Undefined, x.threw, x, FALSE)
  ELSE IF ~x.data.has
    THEN Extracted(Undefined, "SyntaxError", x, TRUE)
  ELSE ReturnParsed(JsonParse(x.data.v), x)

extractDataFromDnsService_sonoffApi(service, device) ==
  ReturnData_sonoffApi(DataToParse(service, device))

\* ------------------------------------------------------------ the accessories
\* what a callback of the host framework is called with
JsBool(b) == [js |-> "boolean", b |-> b, n |-> 0]

JsNumber(n) == [js |-> "number", b |-> FALSE, n |-> n]

JsUndefined == [js |-> "undefined", b |-> FALSE, n |-> 0]

Callback(err, value) == [err |-> err, value |-> value]

\* the fields of an accessory handler object.  kind: which class; device:
\* deviceConfiguration (of its service, the addresses); on: states.on of an
\* outlet; states, initialData: of a strip; listeners: the outlets whose
\* get/set events the constructor bound, in the order it bound them.
Handler(kind, device, on, states, initialData, listeners) ==
  [kind |-> kind, device |-> device, on |-> on, inUse |-> TRUE,
   states |-> states, initialData |-> initialData, listeners |-> listeners]

\* the constructor of OutletPlatformAccessory after the extraction
\* (initialState): the object, or the error the constructor threw
OutletConstructed(initialState, on, device) ==
  [threw |-> initialState.threw,
   decryptCalled |-> initialState.decryptCalled,
   logged |-> IF Falsy(initialState.value)
              THEN "Could not determine initial switch state" ELSE "none",
   h |-> Handler("outlet", device, on, EmptyArray, Undefined, << 0 >>)]

\* a faulty constructor that takes an outlet without a payload to be on
InitialOn_assumed(value) ==
  IF ~Falsy(value) THEN (value.t = "plug" /\ value.switch = PowerStateOn)
  ELSE TRUE

\* initialState.switch === PowerState.On, of a defined initialState
InitialOn(value) ==
  IF ~Falsy(value) THEN (value.t = "plug" /\ value.switch = PowerStateOn)
  ELSE FALSE

OutletInitialised(initialState, device) ==
  OutletConstructed(initialState, InitialOn(initialState.value), device)

\* new OutletPlatformAccessory(platform, accessory)
OutletPlatformAccessory(service, device) ==
  OutletInitialised(extractDataFromDnsService(service, device), device)

\* a faulty constructor that keeps the value of an entry under the position
\* of the entry in the payload
RECURSIVE SeedStates_byPosition(_, _, _)
SeedStates_byPosition(switches, i, states) ==
  IF i >= switches.len THEN states
  ELSE IF ~ArrayHas(switches, i) THEN SeedStates_byPosition(switches, i + 1, states)
  ELSE SeedStates_byPosition(switches, i + 1,
         ArraySet(states, i, switches.el[i].switch = PowerStateOn))

\* the forEach over initialData.switches in the strip's constructor: the
\* states array after the entries from position i on
RECURSIVE SeedStates(_, _, _)
SeedStates(switches, i, states) ==
  IF i >= switches.len THEN states
  ELSE IF ~ArrayHas(switches, i) THEN SeedStates(switches, i + 1, states)
  ELSE SeedStates(switches, i + 1,
         ArraySet(states, switches.el[i].outlet,
                  switches.el[i].switch = PowerStateOn))

\* the outlets of the entries of a switches array, in order
ObservedOutlets(switches) ==
  LET idx == OwnIndices(switches, 0)
  IN  [k \in 1 .. Len(idx) |-> switches.el[idx[k]].outlet]

\* the constructor of StripPlatformAccessory after the extraction x of
\* initialData: the object, or the error the constructor threw
StripConstructed(x, initialData, device) ==
  IF x.threw # "none"
    THEN [threw |-> x.threw, decryptCalled |-> x.decryptCalled,
          logged |-> "none",
          h |-> Handler("strip", device, FALSE, EmptyArray, Undefined, << >>)]
  ELSE IF Falsy(initialData)
    THEN [threw |-> "none", decryptCalled |-> x.decryptCalled,
          logged |-> "Could not identify switches",
          h |-> Handler("strip", device, FALSE, EmptyArray, initialData, << >>)]
  ELSE IF initialData.t # "strip"
    THEN [threw |-> "TypeError", decryptCalled |-> x.decryptCalled,
          logged |-> "none",
          h |-> Handler("strip", device, FALSE, EmptyArray, initialData, << >>)]
  ELSE [threw |-> "none", decryptCalled |-> x.decryptCalled,
        logged |-> "none",
        h |-> Handler("strip", device, FALSE,
                      SeedStates(initialData.switches, 0, EmptyArray),
                      initialData,
                      ObservedOutlets(initialData.switches))]

StripInitialised(x, device) == StripConstructed(x, x.value, device)

\* new StripPlatformAccessory(platform, accessory)
StripPlatformAccessory(service, device) ==
  StripInitialised(extractDataFromDnsService(service, device), device)

\* the outcome of one run of a get or set listener: the handler object
\* afterwards, the requests it posted, what it called the callback with
Ran(h, reqs, cb) == [h |-> h, reqs |-> reqs, cb |-> cb]

\* a faulty setOn that sends the command and forgets the value
Outlet_setOn_unrecorded(h, value, now, rnd) ==
  Ran(h, << toggleSwitchStatus(h.device, value, now, rnd) >>,
      << Callback("null", JsUndefined) >>)

\* OutletPlatformAccessory.setOn(value, callback)
Outlet_setOn(h, value, now, rnd) ==
  LET h2 == [h EXCEPT !.on = value]
  IN  Ran(h2, << toggleSwitchStatus(h2.device, h2.on, now, rnd) >>,
          << Callback("null", JsUndefined) >>)

\* OutletPlatformAccessory.getOn(callback)
Outlet_getOn(h) == Ran(h, << >>, << Callback("null", JsBool(h.on)) >>)

\* OutletPlatformAccessory.getOutletInUse(callback)
Outlet_getOutletInUse(h) == Ran(h, << >>, << Callback("null", JsNumber(1)) >>)

\* the forEach over this.states in the strip's setOn: the switches array
\* built from the indices from i on
RECURSIVE BuildSwitches(_, _, _)
BuildSwitches(states, i, switches) ==
  IF i >= states.len THEN switches
  ELSE IF ~ArrayHas(states, i) THEN BuildSwitches(states, i + 1, switches)
  ELSE BuildSwitches(states, i + 1,
         ArraySet(switches, i,
                  StripSwitch(IF states.el[i] THEN PowerStateOn ELSE PowerStateOff, i)))

\* a faulty setOn that sends the changed outlet alone
Strip_setOn_single(h, outlet, value, now, rnd) ==
  Ran([h EXCEPT !.states = ArraySet(h.states, outlet, value)],
      << setSwitchesStatus(h.device,
           StripObj(ArraySet(EmptyArray, outlet,
                             StripSwitch(IF value THEN PowerStateOn ELSE PowerStateOff,
                                         outlet)),
                    h.initialData.configure, h.initialData.pulses,
                    h.initialData.sledOnline, h.initialData.staMac),
           now, rnd) >>,
      << Callback("null", JsUndefined) >>)

\* a faulty setOn that builds the command before it records the value
Strip_setOn_stale(h, outlet, value, now, rnd) ==
  Ran([h EXCEPT !.states = ArraySet(h.states, outlet, value)],
      << setSwitchesStatus(h.device,
           StripObj(BuildSwitches(h.states, 0, EmptyArray),
                    h.initialData.configure, h.initialData.pulses,
                    h.initialData.sledOnline, h.initialData.staMac),
           now, rnd) >>,
      << Callback("null", JsUndefined) >>)

\* a faulty setOn that sends its own values for the fields it does not change
Strip_setOn_defaults(h, outlet, value, now, rnd) ==
  Ran([h EXCEPT !.states = ArraySet(h.states, outlet, value)],
      << setSwitchesStatus(h.device,
           StripObj(BuildSwitches(ArraySet(h.states, outlet, value), 0, EmptyArray),
                    "cfgA", "plsA", PowerStateOff, h.initialData.staMac),
           now, rnd) >>,
      << Callback("null", JsUndefined) >>)

\* StripPlatformAccessory.setOn(outlet, value, callback)
Strip_setOn(h, outlet, value, now, rnd) ==
  LET h2 == [h EXCEPT !.states = ArraySet(h.states, outlet, value)]
      updatedData ==
        StripObj(BuildSwitches(h2.states, 0, EmptyArray),
                 h2.initialData.configure, h2.initialData.pulses,
                 h2.initialData.sledOnline, h2.initialData.staMac)
  IN  Ran(h2, << setSwitchesStatus(h2.device, updatedData, now, rnd) >>,
          << Callback("null", JsUndefined) >>)

\* a faulty getOn that asks the device before it answers
Strip_getOn_fetch(h, outlet) ==
  Ran(h, << info(h.device, 0, [i \in 1 .. IvLen |-> 1]) >>,
      << Callback("null", IF ArrayHas(h.states, outlet)
                          THEN JsBool(h.states.el[outlet]) ELSE JsUndefined) >>)

\* StripPlatformAccessory.getOn(outlet, callback)
Strip_getOn(h, outlet) ==
  Ran(h, << >>,
      << Callback("null", IF ArrayHas(h.states, outlet)
                          THEN JsBool(h.states.el[outlet]) ELSE JsUndefined) >>)

\* a faulty OutletInUse listener that answers whether the outlet is on
Strip_getOutletInUse_on(h, outlet) ==
  Ran(h, << >>,
      << Callback("null", JsNumber(IF ArrayHas(h.states, outlet) /\ h.states.el[outlet]
                                   THEN 1 ELSE 0)) >>)

\* the OutletInUse listener the strip's constructor binds for each outlet
Strip_getOutletInUse(h, outlet) ==
  Ran(h, << >>, << Callback("null", JsNumber(1)) >>)

\* whether the handler object has listeners on the service of the outlet
Listens(h, outlet) == \E k \in 1 .. Len(h.listeners) : h.listeners[k] = outlet

\* one listener run, by the class of the handler object
RunSet(h, outlet, value, now, rnd) ==
  IF h.kind = "outlet" THEN Outlet_setOn(h, value, now, rnd)
  ELSE Strip_setOn(h, outlet, value, now, rnd)

RunGet(h, outlet) ==
  IF h.kind = "outlet" THEN Outlet_getOn(h) ELSE Strip_getOn(h, outlet)

RunGetOutletInUse(h, outlet) ==
  IF h.kind = "outlet" THEN Outlet_getOutletInUse(h) ELSE Strip_getOutletInUse(h, outlet)

\* the host framework emits an event of a characteristic: every listener
\* bound to it runs, in the order of binding.  hs: the handler objects bound
\* to the accessory; rnds[k]: the random bytes handler k draws.
Listener(ev, h, outlet, value, now, rnd) ==
  CASE ev = "set" -> RunSet(h, outlet, value, now, rnd)
    [] ev = "get" -> RunGet(h, outlet)
    [] ev = "getOutletInUse" -> RunGetOutletInUse(h, outlet)

RECURSIVE EmitFrom(_, _, _, _, _, _, _)
EmitFrom(ev, hs, k, outlet, value, now, rnds) ==
  IF k > Len(hs) THEN Ran(hs, << >>, << >>)
  ELSE LET rest == EmitFrom(ev, hs, k + 1, outlet, value, now, rnds)
           r == Listener(ev, hs[k], outlet, value, now, rnds[k])
       IN  IF ~Listens(hs[k], outlet) THEN rest
           ELSE Ran([rest.h EXCEPT ![k] = r.h], r.reqs \o rest.reqs, r.cb \o rest.cb)

Emit(ev, hs, outlet, value, now, rnds) == EmitFrom(ev, hs, 1, outlet, value, now, rnds)

\* ---------------------------------------------------------------- platform
\* the head of createDeviceAccessory: the DeviceConfiguration of a service
\* under the configured deviceKeys (of the service it keeps the addresses)
DeviceConfiguration(service, deviceKeys) ==
  [deviceId  |-> service.id,
   encrypted |-> service.encrypt \notin {"absent", ""},
   type      |-> service.type,
   addresses |-> service.addresses,
   deviceKey |-> IF service.id \in DOMAIN deviceKeys
                 THEN deviceKeys[service.id] ELSE NoKey]

\* extractData(service, device) after its extraction x: the info request
extractData_info(x, device, now, rnd) ==
  [threw |-> x.threw, decryptCalled |-> x.decryptCalled,
   parsedUndefined |-> x.parsedUndefined,
   reqs |-> IF x.threw = "none" THEN << info(device, now, rnd) >> ELSE << >>]

\* extractData(service, device): the extraction, then the info request
extractData(service, device, now, rnd) ==
  extractData_info(extractDataFromDnsService_sonoffApi(service, device),
                   device, now, rnd)

\* the handler object configureDeviceAccessory constructs for the device type
NewAccessoryHandler(service, device) ==
  IF device.type = "plug" THEN OutletPlatformAccessory(service, device)
  ELSE StripPlatformAccessory(service, device)

VARIABLES
  config,       \* config.deviceKeys: device id -> optional deviceKey
  launched,     \* didFinishLaunching has fired, the discovery listeners are set
  accessories,  \* platform.accessories: the ids of the accessories restored from cache
  handlers,     \* device id -> the handler objects bound to the host's accessory
  registered,   \* device id -> number of registerPlatformAccessories calls
  inflight,     \* the requests handed to axios.post whose promise is pending
  avail,        \* number of 'available' events delivered
  last,         \* the latest handler run: what ran, what it threw, the
                \* callbacks it called and the requests it posted
  api,          \* the EweLinkApi object: initialConfig and config
  promises,     \* the promises of the EweLinkApi calls whose request is pending
  settled,      \* the promise of the EweLinkApi that settled latest
  pure,         \* a call of a function of the libraries: its inputs, its result
  applied       \* device id -> the body of the command the device applied latest

vars ==
  << config, launched, accessories, handlers, registered, inflight, avail, last,
     api, promises, settled, pure, applied >>

\* what the platform does not touch: it constructs no EweLinkApi
others == << api, promises, settled, pure >>

Last(op, dev, service, outlet, value, threw, cb, decryptCalled, parsedUndefined, reqs) ==
  [op |-> op, dev |-> dev, service |-> service, outlet |-> outlet,
   value |-> value, threw |-> threw, cb |-> cb,
   decryptCalled |-> decryptCalled, parsedUndefined |-> parsedUndefined,
   reqs |-> reqs]

\* the values Date.now() may return
Times == 0 .. MaxNow

\* a faulty doPost that waits for the response: nothing is left pending
doPost_awaited(pending, reqs) == pending

\* a faulty doPost that sends no request equal to one that is unanswered
RECURSIVE doPost_coalesced(_, _)
doPost_coalesced(pending, reqs) ==
  IF reqs = << >> THEN pending
  ELSE doPost_coalesced(IF BagIn(Head(reqs), pending) THEN pending
                        ELSE pending (+) SetToBag({Head(reqs)}),
                        Tail(reqs))

\* doPost(uri, data, log): axios.post is called and its promise left pending
RECURSIVE doPost(_, _)
doPost(pending, reqs) ==
  IF reqs = << >> THEN pending
  ELSE doPost(pending (+) SetToBag({Head(reqs)}), Tail(reqs))

InitPlatform ==
  /\ config \in Configs
  /\ launched = FALSE
  /\ accessories = {}
  /\ handlers = [d \in Devices |-> << >>]
  /\ registered = [d \in Devices |-> 0]
  /\ inflight = EmptyBag
  /\ avail = 0
  /\ last = Last("init", "", NoService, 0, FALSE, "none", << >>, FALSE, FALSE, << >>)
  /\ applied = [d \in Devices |-> Undefined]

\* no EweLinkApi is constructed, no promise of it has settled, no function
\* of the libraries is called on its own
NoApi == [initialConfig |-> [authenticationToken |-> NoKey],
          config |-> [authenticationToken |-> NoKey], made |-> FALSE]

NoSettled == [op |-> "none"]

NoCall == [op |-> "none"]

Init ==
  /\ InitPlatform
  /\ api = NoApi
  /\ promises = {}
  /\ settled = NoSettled
  /\ pure = NoCall

\* configureAccessory(accessory): the host restores a cached accessory
configureAccessory(d) ==
  /\ ~launched
  /\ d \notin accessories
  /\ accessories' = accessories \cup {d}
  /\ last' = Last("configureAccessory", d, NoService, 0, FALSE, "none", << >>, FALSE, FALSE, << >>)
  /\ UNCHANGED others
  /\ UNCHANGED << applied, config, launched, handlers, registered, inflight, avail >>

\* the didFinishLaunching callback: discoverDevices registers the listeners
discoverDevices ==
  /\ ~launched
  /\ launched' = TRUE
  /\ last' = Last("didFinishLaunching", "", NoService, 0, FALSE, "none", << >>, FALSE, FALSE, << >>)
  /\ UNCHANGED others
  /\ UNCHANGED << applied, config, accessories, handlers, registered, inflight, avail >>

\* configureDeviceAccessory(device) once the handler object a of accessory d
\* is constructed: the handlers and registrations afterwards and the error
\* thrown.  A constructor that throws has bound the listeners it bound before
\* (the plug's): on a cached accessory they stay.  The host refuses a second
\* accessory with a registered UUID ("duplicate UUID").
AccessoryConfigured(d, a, acc, hs, reg) ==
  IF a.threw # "none"
    THEN [threw |-> a.threw,
          handlers |-> IF d \in acc /\ a.h.listeners # << >>
                       THEN [hs EXCEPT ![d] = Append(@, a.h)] ELSE hs,
          registered |-> reg]
  ELSE IF d \in acc
    THEN [threw |-> "none", handlers |-> [hs EXCEPT ![d] = Append(@, a.h)],
          registered |-> reg]
  ELSE IF reg[d] = 0
    THEN [threw |-> "none", handlers |-> [hs EXCEPT ![d] = << a.h >>],
          registered |-> [reg EXCEPT ![d] = 1]]
  ELSE [threw |-> "DuplicateUUID", handlers |-> hs,
        registered |-> [reg EXCEPT ![d] = @ + 1]]

\* configureDeviceAccessory(device), after createDeviceAccessory returned
configureDeviceAccessory(service, device, acc, hs, reg) ==
  AccessoryConfigured(device.deviceId, NewAccessoryHandler(service, device),
                      acc, hs, reg)

\* the listener after the info request e of createDeviceAccessory is posted
\* and configureDeviceAccessory has ended as c
onAvailable_configured(service, e, c) ==
  /\ inflight' = doPost(inflight, e.reqs)
  /\ handlers' = c.handlers
  /\ registered' = c.registered
  /\ last' = Last("available", service.id, service, 0, FALSE, c.threw, << >>,
                  e.decryptCalled, e.parsedUndefined, e.reqs)

\* the listener from the extraction x of createDeviceAccessory on: an error
\* thrown there ends the listener
onAvailable_created(service, device, x, c) ==
  IF x.threw # "none"
  THEN /\ last' = Last("available", service.id, service, 0, FALSE, x.threw, << >>,
                       x.decryptCalled, x.parsedUndefined, << >>)
       /\ UNCHANGED << handlers, registered, inflight >>
  ELSE \E rnd \in RandomIvs, now \in Times :
         onAvailable_configured(service, extractData_info(x, device, now, rnd), c)

onAvailable_device(service, device) ==
  onAvailable_created(service, device,
    extractDataFromDnsService_sonoffApi(service, device),
    configureDeviceAccessory(service, device, accessories, handlers, registered))

\* the onAvailable listener: createDeviceAccessory, configureDeviceAccessory
onAvailable(service) ==
  /\ launched
  /\ avail < MaxAvail
  /\ BagCardinality(inflight) < MaxInflight
  /\ onAvailable_device(service, DeviceConfiguration(service, config))
  /\ avail' = avail + 1
  /\ UNCHANGED others
  /\ UNCHANGED << applied, config, launched, accessories >>

\* a faulty onUpdate that drops what is known of the device
onUpdate_reset(service) ==
  /\ launched
  /\ handlers' = [handlers EXCEPT ![service.id] = << >>]
  /\ last' = Last("update", service.id, service, 0, FALSE, "none", << >>, FALSE, FALSE, << >>)
  /\ UNCHANGED others
  /\ UNCHANGED << applied, config, launched, accessories, registered, inflight, avail >>

\* the onUpdate listener: it logs the service
onUpdate(service) ==
  /\ launched
  /\ last' = Last("update", service.id, service, 0, FALSE, "none", << >>, FALSE, FALSE, << >>)
  /\ UNCHANGED others
  /\ UNCHANGED << applied, config, launched, accessories, handlers, registered, inflight, avail >>

\* a faulty onUnavailable that forgets the handlers of the device
onUnavailable_removed(service) ==
  /\ launched
  /\ handlers' = [handlers EXCEPT ![service.id] = << >>]
  /\ last' = Last("unavailable", service.id, service, 0, FALSE, "none", << >>, FALSE, FALSE, << >>)
  /\ UNCHANGED others
  /\ UNCHANGED << applied, config, launched, accessories, registered, inflight, avail >>

\* the onUnavailable listener: it logs the service
onUnavailable(service) ==
  /\ launched
  /\ last' = Last("unavailable", service.id, service, 0, FALSE, "none", << >>, FALSE, FALSE, << >>)
  /\ UNCHANGED others
  /\ UNCHANGED << applied, config, launched, accessories, handlers, registered, inflight, avail >>

NListeners(hs, outlet) == Cardinality({k \in 1 .. Len(hs) : Listens(hs[k], outlet)})

Outlets == 0 .. 2

\* the host sets characteristic On of the service of an outlet while fewer
\* than max requests are unanswered
HostSetWithin(max, d, outlet, value) ==
  /\ NListeners(handlers[d], outlet) > 0
  /\ BagCardinality(inflight) < max
  /\ \E rnds \in [1 .. Len(handlers[d]) -> RandomIvs], now \in Times :
       LET r == Emit("set", handlers[d], outlet, value, now, rnds)
       IN  /\ handlers' = [handlers EXCEPT ![d] = r.h]
           /\ inflight' = doPost(inflight, r.reqs)
           /\ last' = Last("set", d, NoService, outlet, value, "none", r.cb, FALSE, FALSE, r.reqs)
  /\ UNCHANGED others
  /\ UNCHANGED << applied, config, launched, accessories, registered, avail >>

\* the host reads a characteristic (ev: "get" for On, "getOutletInUse") of
\* the service of an outlet
HostRead(ev, d, outlet) ==
  /\ NListeners(handlers[d], outlet) > 0
  /\ LET r == Emit(ev, handlers[d], outlet, FALSE, 0,
                   [k \in 1 .. Len(handlers[d]) |-> DeviceIv])
     IN  /\ handlers' = [handlers EXCEPT ![d] = r.h]
         /\ inflight' = doPost(inflight, r.reqs)
         /\ last' = Last(ev, d, NoService, outlet, FALSE, "none", r.cb, FALSE, FALSE, r.reqs)
  /\ UNCHANGED others
  /\ UNCHANGED << applied, config, launched, accessories, registered, avail >>

\* the host sets characteristic On of the service of an outlet
HostSet(d, outlet, value) == HostSetWithin(MaxInflight, d, outlet, value)

HostGet(d, outlet) == HostRead("get", d, outlet)

HostGetOutletInUse(d, outlet) == HostRead("getOutletInUse", d, outlet)

\* the device at the other end of a request: it reads the envelope with its
\* own secret when encrypt is set
DeviceReads(req) ==
  IF req.payload.encrypt
  THEN decrypt(Some(req.payload.data), DeviceSecret(req.payload.deviceid), req.payload.iv)
  ELSE [threw |-> "none", text |-> req.payload.data]

\* the body of a switch or switches command the device can read
DeviceCommand(req, read) ==
  IF req.uri.path \in {"/zeroconf/switch", "/zeroconf/switches"} /\ read.threw = "none"
  THEN JsonParse(read.text) ELSE SyntaxError

\* what the devices hold once a device has answered the request: it has
\* applied a command it can read, the whole of it
DeviceApplied(held, req) ==
  IF DeviceCommand(req, DeviceReads(req)) # SyntaxError
  THEN [held EXCEPT ![req.payload.deviceid] = DeviceCommand(req, DeviceReads(req))]
  ELSE held

\* a faulty then that takes the switches of the command answered for the
\* states of the strip
doPost_settled_synced(result, req, hs) ==
  [handlers |-> IF result = "resolved"
                   /\ DeviceCommand(req, DeviceReads(req)).t = "strip"
                THEN [hs EXCEPT ![req.payload.deviceid] =
                        [k \in 1 .. Len(@) |->
                           [@[k] EXCEPT !.states =
                              SeedStates(DeviceCommand(req, DeviceReads(req)).switches,
                                         0, EmptyArray)]]]
                ELSE hs,
   reqs |-> << >>,
   last |-> Last(result, req.payload.deviceid, NoService, 0, FALSE, "none", << >>,
                 FALSE, FALSE, << >>)]

\* a faulty catch that takes back the state the handlers recorded
doPost_settled_revert(result, req, hs) ==
  [handlers |-> IF result = "rejected"
                THEN [hs EXCEPT ![req.payload.deviceid] =
                        [k \in 1 .. Len(@) |-> [@[k] EXCEPT !.on = ~@]]]
                ELSE hs,
   reqs |-> << >>,
   last |-> Last(result, req.payload.deviceid, NoService, 0, FALSE, "none", << >>,
                 FALSE, FALSE, << >>)]

\* what the settling of a request does to the program: the then and the
\* catch of doPost log, nothing else
doPost_settled(result, req, hs) ==
  [handlers |-> hs,
   reqs |-> << >>,
   last |-> Last(result, req.payload.deviceid, NoService, 0, FALSE, "none", << >>, FALSE, FALSE, << >>)]

\* the promise of a posted request settles: what the program does
doPost_settling(req, result) ==
  /\ BagIn(req, inflight)
  /\ LET r == doPost_settled(result, req, handlers)
     IN  /\ inflight' = doPost(inflight (-) SetToBag({req}), r.reqs)
         /\ handlers' = r.handlers
         /\ last' = r.last
  /\ UNCHANGED others
  /\ UNCHANGED << config, launched, accessories, registered, avail >>

\* the promise of a posted request settles: it resolves (doPost's then), or
\* it rejects on connection refused, timeout or a status that is not 2xx
\* (doPost's catch); what the device holds is not followed
doPost_settle(req, result) ==
  /\ doPost_settling(req, result)
  /\ UNCHANGED applied

doPost_then(req) == doPost_settle(req, "resolved")

doPost_catch(req) == doPost_settle(req, "rejected")

\* the next-state relation over the services the network may announce and the
\* devices the host may address
NextOver(Svcs, Upds, Devs) ==
  \/ \E d \in Devs \cap Cached : configureAccessory(d)
  \/ discoverDevices
  \/ \E service \in Svcs : onAvailable(service)
  \/ \E service \in Upds : onUpdate(service)
  \/ \E service \in Upds : onUnavailable(service)
  \/ \E d \in Devs, outlet \in Outlets, value \in BOOLEAN : HostSet(d, outlet, value)
  \/ \E d \in Devs, outlet \in Outlets : HostGet(d, outlet)
  \/ \E d \in Devs, outlet \in Outlets : HostGetOutletInUse(d, outlet)
  \/ \E req \in BagToSet(inflight) : doPost_then(req)
  \/ \E req \in BagToSet(inflight) : doPost_catch(req)

Next == NextOver(Services, Updates, Devices)

Spec == Init /\ [][Next]_vars

\* the network of the plug alone
NextPlug == NextOver(ServicesOf("p1"), UpdatesOf("p1"), {"p1"})

SpecPlug == Init /\ [][NextPlug]_vars

\* two commands of the strip on the network at once.  MaxRace requests may
\* be unanswered; the network delivers every request, in any order; the
\* device applies a command as it answers it, and the promise resolves.
MaxRace == 2

Device_answers(req) ==
  /\ doPost_settling(req, "resolved")
  /\ applied' = DeviceApplied(applied, req)

NextRace ==
  \/ discoverDevices
  \/ \E service \in ServicesOf("s1") : onAvailable(service)
  \/ \E outlet \in Outlets, value \in BOOLEAN : HostSetWithin(MaxRace, "s1", outlet, value)
  \/ \E req \in BagToSet(inflight) : Device_answers(req)

SpecRace == Init /\ [][NextRace]_vars

\* ------------------------------------------------------------ the eWeLink API
\* how many promises of the EweLinkApi may be pending
MaxPending == 2

Lower ==
  << "a", "b", "c", "d", "e", "f", "g", "h", "i", "j", "k", "l", "m", "n",
     "o", "p", "q", "r", "s", "t", "u", "v", "w", "x", "y", "z" >>

Upper ==
  << "A", "B", "C", "D", "E", "F", "G", "H", "I", "J", "K", "L", "M", "N",
     "O", "P", "Q", "R", "S", "T", "U", "V", "W", "X", "Y", "Z" >>

\* the weight of a character in the collation of String.prototype.localeCompare:
\* at the first level a letter weighs the same in both cases and '_' weighs
\* less than every letter; at the third level lower case comes first
CollationWeight(level, ch) ==
  IF level = 1
  THEN (IF IndexOf(Lower, ch) > 0 THEN IndexOf(Lower, ch) ELSE IndexOf(Upper, ch))
  ELSE (IF IndexOf(Upper, ch) > 0 THEN 1 ELSE 0)

\* the comparison of two strings at one level of the collation: -1, 0 or 1
RECURSIVE CollationCompare(_, _, _)
CollationCompare(level, a, b) ==
  IF a = << >> THEN (IF b = << >> THEN 0 ELSE -1)
  ELSE IF b = << >> THEN 1
  ELSE IF CollationWeight(level, Head(a)) < CollationWeight(level, Head(b)) THEN -1
  ELSE IF CollationWeight(level, Head(a)) > CollationWeight(level, Head(b)) THEN 1
  ELSE CollationCompare(level, Tail(a), Tail(b))

\* a.localeCompare(b)
localeCompare(a, b) ==
  IF CollationCompare(1, a, b) # 0 THEN CollationCompare(1, a, b)
  ELSE CollationCompare(3, a, b)

\* one step of  keys.sort((a, b) => b.localeCompare(a)): key a goes before the
\* first key b of the sorted part that the comparator puts it before
\* a faulty step that sorts in ascending order
RECURSIVE SortInsert_ascending(_, _)
SortInsert_ascending(sorted, a) ==
  IF sorted = << >> THEN << a >>
  ELSE IF localeCompare(Head(sorted), a) > 0 THEN << a >> \o sorted
  ELSE << Head(sorted) >> \o SortInsert_ascending(Tail(sorted), a)

RECURSIVE SortInsert(_, _)
SortInsert(sorted, a) ==
  IF sorted = << >> THEN << a >>
  ELSE IF localeCompare(Head(sorted), a) < 0 THEN << a >> \o sorted
  ELSE << Head(sorted) >> \o SortInsert(Tail(sorted), a)

RECURSIVE SortKeys(_)
SortKeys(keys) ==
  IF keys = << >> THEN << >>
  ELSE SortInsert(SortKeys(SubSeq(keys, 1, Len(keys) - 1)), keys[Len(keys)])

\* a field of a request object; a request object is its fields in the order
\* they were set
Field(key, value) == [key |-> key, value |-> value]

\* Object.keys(requestParams)
ObjectKeys(obj) == [i \in 1 .. Len(obj) |-> obj[i].key]

\* requestParams[key]
FieldValue(obj, key) ==
  (CHOOSE f \in {obj[i] : i \in 1 .. Len(obj)} : f.key = key).value

\* .map(key => key + '=' + requestParams[key]).join('&')
RECURSIVE JoinPairs(_, _)
JoinPairs(obj, keys) ==
  IF keys = << >> THEN << >>
  ELSE Head(keys) \o << "=" >> \o FieldValue(obj, Head(keys))
       \o (IF Len(keys) > 1 THEN << "&" >> ELSE << >>)
       \o JoinPairs(obj, Tail(keys))

\* the signing string of getRegion
dataToSign(requestParams) == JoinPairs(requestParams, SortKeys(ObjectKeys(requestParams)))

\* the names of the fields of the requests
K_country_code == << "c", "o", "u", "n", "t", "r", "y", "_", "c", "o", "d", "e" >>
K_version == << "v", "e", "r", "s", "i", "o", "n" >>
K_ts == << "t", "s" >>
K_nonce == << "n", "o", "n", "c", "e" >>
K_appid == << "a", "p", "p", "i", "d" >>
K_imei == << "i", "m", "e", "i" >>
K_os == << "o", "s" >>
K_model == << "m", "o", "d", "e", "l" >>
K_romVersion == << "r", "o", "m", "V", "e", "r", "s", "i", "o", "n" >>
K_appVersion == << "a", "p", "p", "V", "e", "r", "s", "i", "o", "n" >>

\* populateCommonApiRequestFields(obj); now is the value of new Date().getTime(),
\* rnd the value of this.nonce()
populateCommonApiRequestFields(obj, now, rnd) ==
  obj \o << Field(K_version, << "6" >>),
            Field(K_ts, DecStr(now \div 1000)),
            Field(K_nonce, << rnd >>),
            Field(K_appid, << "oeVkj2lYFGnJu5XUtWisfW4utiN4u9Mq" >>),
            Field(K_imei, << "imei" >>),
            Field(K_os, << "iOS" >>),
            Field(K_model, << "iPhone10,6" >>),
            Field(K_romVersion, << "11.1.2" >>),
            Field(K_appVersion, << "3.5.3" >>) >>

\* getSignature(input): the HMAC of the input
getSignature(input) == [hmac |-> "sha256", of |-> input]

\* the configurations an EweLinkApi is constructed with
InitialConfigs == {[authenticationToken |-> t] : t \in {NoKey, Some("cfg")}}

\* new EweLinkApi(platform, log, initialConfig): config takes phoneNumber,
\* email, password, imei, apiHost and webSocketApi of initialConfig
EweLinkApi(initialConfig) ==
  [initialConfig |-> initialConfig,
   config |-> [authenticationToken |-> NoKey], made |-> TRUE]

\* 'Bearer ' + this.config.authenticationToken
Bearer(token) == << "Bearer", IF token.has THEN token.v ELSE "undefined" >>

\* a promise of the EweLinkApi: the call, the request it sent, how it stands
Promise(op, request) ==
  [op |-> op, request |-> request, state |-> "pending", via |-> "none",
   reason |-> [msg |-> "", code |-> 0], result |-> Undefined,
   response |-> Undefined]

\* reject(reason) and resolve(value): a promise settles once
Reject(p, msg, code) ==
  IF p.state = "pending"
  THEN [p EXCEPT !.state = "rejected", !.reason = [msg |-> msg, code |-> code]]
  ELSE p

\* a faulty resolve that settles a promise again
Resolve_again(p, value) == [p EXCEPT !.state = "resolved", !.result = value]

Resolve(p, value) ==
  IF p.state = "pending"
  THEN [p EXCEPT !.state = "resolved", !.result = value]
  ELSE p

\* the responses of the cloud: an error code or none, a token or none, a
\* device list or none, a region or none
ErrorCodes == {0, 301, 401}

LoginResponses ==
  {[t |-> "login", error |-> e, at |-> a] :
     e \in {[has |-> FALSE, v |-> 0]} \cup {[has |-> TRUE, v |-> c] : c \in ErrorCodes},
     a \in {NoKey, Some("t1"), Some("t2")}}

ListDeviceResponses ==
  {[t |-> "list", error |-> e, devicelist |-> l] :
     e \in {[has |-> FALSE, v |-> 0]} \cup {[has |-> TRUE, v |-> c] : c \in ErrorCodes},
     l \in {NoText, Some(<< "p1" >>)}}

RegionResponses ==
  {[t |-> "region", error |-> e, region |-> r] :
     e \in {[has |-> FALSE, v |-> 0]} \cup {[has |-> TRUE, v |-> c] : c \in ErrorCodes},
     r \in {NoKey, Some("eu")}}

\* response.data.error && response.data.error !== 0
HasError(response) == response.error.has /\ response.error.v # 0

\* the callback of then in login: reject when there is no token, then the
\* token is stored and resolve is called, whatever came before
login_resolved(p, response) ==
  Resolve(IF ~Truthy(response.at)
          THEN Reject(p, "Server did not response with an authentication token.", 0)
          ELSE p,
          response)

\* the callback of then in listDevices and in getRegion
error_checked(p, response, value) ==
  Resolve(IF HasError(response)
          THEN Reject(p, "Error code returned from API", response.error.v)
          ELSE p,
          value)

Settled(p, via, response) == [p EXCEPT !.via = via, !.response = response]

\* the application constructs the EweLinkApi
NewEweLinkApi(initialConfig) ==
  /\ ~api.made
  /\ api' = EweLinkApi(initialConfig)
  /\ UNCHANGED << applied, config, launched, accessories, handlers, registered, inflight,
                  avail, last, promises, settled, pure >>

\* a call of the EweLinkApi that sends request
Called(op, request) ==
  /\ api.made
  /\ Cardinality(promises) < MaxPending
  /\ Promise(op, request) \notin promises
  /\ promises' = promises \cup {Promise(op, request)}
  /\ UNCHANGED << applied, config, launched, accessories, handlers, registered, inflight,
                  avail, last, api, settled, pure >>

\* login()
login ==
  Called("login",
         [uri |-> "/api/user/login", Authorization |-> << "Sign" >>,
          params |-> << >>])

\* listDevices(apiKey)
listDevices(apiKey) ==
  Called("listDevices",
         [uri |-> "/api/user/device",
          Authorization |-> Bearer(api.config.authenticationToken),
          params |-> populateCommonApiRequestFields(
                       << Field(<< "l", "a", "n", "g" >>, << "en" >>),
                          Field(<< "a", "p", "i", "K", "e", "y" >>, << apiKey >>),
                          Field(<< "g", "e", "t", "T", "a", "g", "s" >>, << "1" >>) >>,
                       1999, "n")])

\* getRegion(countryCode)
getRegion(countryCode) ==
  Called("getRegion",
         [uri |-> "/api/user/region",
          Authorization |-> << "Sign" >>,
          signed |-> dataToSign(populateCommonApiRequestFields(
                       << Field(K_country_code, << countryCode >>) >>, 1999, "n")),
          params |-> populateCommonApiRequestFields(
                       << Field(K_country_code, << countryCode >>) >>, 1999, "n")])

\* the request of promise p is answered: the callback of then (status 2xx)
\* or of catch runs and the promise settles as q
Answered(p, q, token) ==
  /\ p \in promises
  /\ promises' = promises \ {p}
  /\ settled' = q
  /\ api' = [api EXCEPT !.config.authenticationToken = token]
  /\ UNCHANGED << applied, config, launched, accessories, handlers, registered, inflight,
                  avail, last, pure >>

login_then(p, response) ==
  /\ p.op = "login"
  /\ Answered(p, Settled(login_resolved(p, response), "then", response), response.at)

login_catch(p) ==
  /\ p.op = "login"
  /\ Answered(p, Settled(Reject(p, "Error logging in.", 0), "catch", Undefined),
              api.config.authenticationToken)

listDevices_then(p, response) ==
  /\ p.op = "listDevices"
  /\ Answered(p, Settled(error_checked(p, response, [devicelist |-> response.devicelist]),
                         "then", response),
              api.config.authenticationToken)

listDevices_catch(p) ==
  /\ p.op = "listDevices"
  /\ Answered(p, Settled(Reject(p, "error", 0), "catch", Undefined),
              api.config.authenticationToken)

getRegion_then(p, response) ==
  /\ p.op = "getRegion"
  /\ Answered(p, Settled(error_checked(p, response, [region |-> response.region]),
                         "then", response),
              api.config.authenticationToken)

getRegion_catch(p) ==
  /\ p.op = "getRegion"
  /\ Answered(p, Settled(Reject(p, "error", 0), "catch", Undefined),
              api.config.authenticationToken)

NextCloud ==
  \/ \E initialConfig \in InitialConfigs : NewEweLinkApi(initialConfig)
  \/ login
  \/ \E apiKey \in {"ak"} : listDevices(apiKey)
  \/ \E countryCode \in {"US", "GB"} : getRegion(countryCode)
  \/ \E p \in promises, response \in LoginResponses : login_then(p, response)
  \/ \E p \in promises : login_catch(p)
  \/ \E p \in promises, response \in ListDeviceResponses : listDevices_then(p, response)
  \/ \E p \in promises : listDevices_catch(p)
  \/ \E p \in promises, response \in RegionResponses : getRegion_then(p, response)
  \/ \E p \in promises : getRegion_catch(p)

SpecCloud == Init /\ [][NextCloud]_vars


\* --------------------------------------------- the functions of the libraries
\* a call of a function on its own: the inputs, and the result once it ran
PureInput(fn, in) == [op |-> "input", fn |-> fn, in |-> in, out |-> Undefined]

PureOutput(fn, in, out) == [op |-> "output", fn |-> fn, in |-> in, out |-> out]

\* the values of Date.now() and of crypto.randomBytes(16) the calls are made with
PureTimes == {0, 9, 10, 1700000000}

PureIvs == {[i \in 1 .. IvLen |-> b] : b \in {1, 4}}

\* the inputs of doApiCall
DoApiCallInputs ==
  {PureInput("doApiCall", [now |-> n, apiKey |-> k, data |-> o, rnd |-> r]) :
     n \in PureTimes, k \in {NoKey, Some(""), Some("k1")},
     o \in {EmptyObj} \cup PlugPayloads, r \in PureIvs}

\* a text in four pieces, and the TXT records that hold the pieces under the
\* keys of ks
Pieces == << << "{" >>, << "switch" >>, << "on" >>, << "}" >> >>

PieceKeys == << "data1", "data2", "data3", "data4" >>

PieceRecord(ks, from) ==
  [k \in ks |-> IF k = "data1" THEN SubSeq(<< "{", "switch", "on", "}" >>, 1, from)
                ELSE Pieces[IndexOf(PieceKeys, k)]]

\* the records of the plug: every choice of fields, data1 holding the text
\* up to the first field that follows
PieceServices ==
  {Service("p1", "absent", PieceRecord(ks, n)) :
     ks \in SUBSET {"data1", "data2", "data3", "data4"}, n \in {1, 4}}

\* a record with data1 and data2 the other way round
SwappedService == Service("p1", "absent", ("data1" :> << "switch" >>) @@ ("data2" :> << "{" >>))

ExtractInputs ==
  {PureInput("extract",
             [service |-> sv,
              device |-> DeviceConfiguration(sv, [d \in Devices |-> NoKey])]) :
     sv \in PieceServices
             \cup {SplitService("p1"), SwappedService, EmptyService("p1"),
                   MalformedService("p1")}}
  \cup
  {PureInput("extract",
             [service |-> sv,
              device |-> DeviceConfiguration(sv, [d \in Devices |-> Some(DeviceSecret(d))])]) :
     sv \in {SplitEncryptedService("p1")} \cup {EncryptedService("p1", q) : q \in PlugPayloads}}

\* the plain texts and the secrets encrypt is called with
PlainTexts ==
  {JsonStringify(o) : o \in {EmptyObj} \cup PlugPayloads \cup StripPayloads}
  \cup { << >>, << "pad" >>, << "{", "pad" >> }

EncryptInputs ==
  {PureInput("encrypt", [plainText |-> t, apiKey |-> k, rnd |-> r]) :
     t \in PlainTexts, k \in {Secrets[i] : i \in 1 .. Len(Secrets)}, r \in PureIvs}

\* request objects: the fields of the region request, some or all of them
SignFields ==
  << Field(K_country_code, << "US" >>), Field(K_ts, << "1" >>),
     Field(K_nonce, << "n" >>), Field(K_appid, << "id" >>),
     Field(K_appVersion, << "3.5.3" >>), Field(K_version, << "6" >>) >>

FieldsOf(idx) ==
  LET Keep(f) == \E i \in idx : SignFields[i] = f
  IN  SelectSeq(SignFields, Keep)

SignInputs ==
  {PureInput("dataToSign", [requestParams |-> FieldsOf(idx)]) :
     idx \in (SUBSET (1 .. Len(SignFields))) \ {{}}}
  \cup {PureInput("dataToSign",
          [requestParams |-> populateCommonApiRequestFields(
                               << Field(K_country_code, << "US" >>) >>, 1999, "n")])}

PureInputs == DoApiCallInputs \cup ExtractInputs \cup EncryptInputs \cup SignInputs

InitPure ==
  /\ InitPlatform
  /\ api = NoApi
  /\ promises = {}
  /\ settled = NoSettled
  /\ pure \in PureInputs

\* the function fn is called with the inputs and returns out
PureCalled(fn, out) ==
  /\ pure.op = "input"
  /\ pure.fn = fn
  /\ pure' = PureOutput(fn, pure.in, out)
  /\ UNCHANGED << applied, config, launched, accessories, handlers, registered, inflight,
                  avail, last, api, promises, settled >>

doApiCall_called ==
  /\ pure.fn = "doApiCall"
  /\ PureCalled("doApiCall",
       doApiCall(Uri(getBaseUri([addresses |-> Addresses("p1")]), "/zeroconf/switch"),
                 "p1", pure.in.data, pure.in.apiKey, pure.in.now, pure.in.rnd))

extractDataFromDnsService_called ==
  /\ pure.fn = "extract"
  /\ PureCalled("extract",
       [joined |-> JoinData(pure.in.service),
        lanMode |-> extractDataFromDnsService(pure.in.service, pure.in.device),
        sonoffApi |-> extractDataFromDnsService_sonoffApi(pure.in.service, pure.in.device)])

\* encrypt(plainText, apiKey): cryptkey is the key it hands to createCipheriv
encrypt_called ==
  /\ pure.fn = "encrypt"
  /\ PureCalled("encrypt",
       [cryptkey |-> Md5Digest(pure.in.apiKey),
        result |-> encrypt(pure.in.plainText, pure.in.apiKey, pure.in.rnd)])

\* decrypt(data, apiKey, iv) on what encrypt returned, in base64 as doApiCall
\* sends it
decrypt_called ==
  /\ pure.op = "output"
  /\ pure.fn = "encrypt"
  /\ pure' = PureOutput("decrypt", pure.in,
               [cryptkey |-> Md5Digest(pure.in.apiKey),
                result |-> decrypt(Some(Base64Text(pure.out.result.data)),
                                   pure.in.apiKey,
                                   Some(Base64Text(pure.out.result.iv)))])
  /\ UNCHANGED << applied, config, launched, accessories, handlers, registered, inflight,
                  avail, last, api, promises, settled >>

dataToSign_called ==
  /\ pure.fn = "dataToSign"
  /\ PureCalled("dataToSign", dataToSign(pure.in.requestParams))

NextPure ==
  \/ doApiCall_called
  \/ extractDataFromDnsService_called
  \/ encrypt_called
  \/ decrypt_called
  \/ dataToSign_called

SpecPure == InitPure /\ [][NextPure]_vars

\* ------------------------------------------------------------------ claims
\* the handler objects, in the order of binding, whose listeners an event of
\* the service of the outlet runs
Listening(hs, outlet) ==
  LET Test(h) == Listens(h, outlet)
  IN  SelectSeq(hs, Test)

\* the text the device reads from an envelope: data, decrypted with the key
\* of the configuration when encrypt is set
EnvelopeText(req) ==
  IF req.payload.encrypt
  THEN decrypt(Some(req.payload.data), config[req.payload.deviceid].v, req.payload.iv)
  ELSE [threw |-> "none", text |-> req.payload.data]

\* the object of the body of an envelope
EnvelopeBody(req) == JsonParse(EnvelopeText(req).text)

\* the entries of an array (no holes)
Entries(arr) == {arr.el[i] : i \in DOMAIN arr.el}

PowerOf(b) == IF b THEN PowerStateOn ELSE PowerStateOff

\* the request is one Switches command with an entry for each of the outlets
\* the handler object h observed, outlet set to value, the others as h held them
FullStateCommand(req, h, outlet, value) ==
  /\ req.uri.path = "/zeroconf/switches"
  /\ EnvelopeText(req).threw = "none"
  /\ EnvelopeBody(req) # SyntaxError
  /\ EnvelopeBody(req).t = "strip"
  /\ Cardinality(DOMAIN EnvelopeBody(req).switches.el) = Len(h.listeners)
  /\ {e.outlet : e \in Entries(EnvelopeBody(req).switches)}
       = {h.listeners[k] : k \in 1 .. Len(h.listeners)}
  /\ \A e \in Entries(EnvelopeBody(req).switches) :
       e.switch = PowerOf(IF e.outlet = outlet THEN value ELSE h.states.el[e.outlet])

\* C1: every run of the strip's setOn(i, v) on a seeded strip with N observed
\* outlets issues one Switches command that holds all N outlets, outlet i
\* set to v and every other outlet with the value the handler held before.
C1_StripSetOnSendsFullState ==
  [][(last'.op = "set" /\ DeviceType(last'.dev) = "strip") =>
       /\ Len(Listening(handlers[last'.dev], last'.outlet)) > 0
       /\ Len(last'.reqs) = Len(Listening(handlers[last'.dev], last'.outlet))
       /\ \A k \in 1 .. Len(last'.reqs) :
            FullStateCommand(last'.reqs[k],
                             Listening(handlers[last'.dev], last'.outlet)[k],
                             last'.outlet, last'.value)]_vars

\* a strip that reported outlets 1 and 2 was told to switch outlet 1 on and
\* sent an encrypted command with two entries
C1_Witness ==
  /\ last.op = "set" /\ last.dev = "s1" /\ last.outlet = 1 /\ last.value
  /\ Len(last.reqs) = 1
  /\ last.reqs[1].payload.encrypt
  /\ DOMAIN EnvelopeBody(last.reqs[1]).switches.el = {1, 2}
  /\ EnvelopeBody(last.reqs[1]).switches.el[1].switch = PowerStateOn
  /\ EnvelopeBody(last.reqs[1]).switches.el[2].switch = PowerStateOn

PlugDevices == {d \in Devices : DeviceType(d) = "plug"}

\* C2: for a plug, each setOn(value) records value in its handler object and
\* issues a command to /zeroconf/switch with body {switch: on} for true and
\* {switch: off} for false; no other step changes the recorded value; getOn
\* answers the recorded value: so getOn returns the value of the latest setOn.
C2_PlugGetOnLatestSetOn ==
  [][/\ (last'.op = "set" /\ last'.dev \in PlugDevices) =>
          /\ handlers[last'.dev] # << >>
          /\ Len(last'.reqs) = Len(handlers[last'.dev])
          /\ \A k \in 1 .. Len(handlers[last'.dev]) :
               /\ handlers'[last'.dev][k].on = last'.value
               /\ last'.reqs[k].uri.path = "/zeroconf/switch"
               /\ EnvelopeBody(last'.reqs[k]) = PlugObj(PowerOf(last'.value))
     /\ (last'.op = "get" /\ last'.dev \in PlugDevices) =>
          /\ Len(last'.cb) = Len(handlers[last'.dev])
          /\ \A k \in 1 .. Len(handlers[last'.dev]) :
               last'.cb[k] = Callback("null", JsBool(handlers[last'.dev][k].on))
     /\ (last'.op # "set") =>
          \A d \in PlugDevices :
            /\ Len(handlers'[d]) >= Len(handlers[d])
            /\ \A k \in 1 .. Len(handlers[d]) : handlers'[d][k].on = handlers[d][k].on]_vars

\* a plug was told to switch off, holds off, and sent an encrypted command
C2_Witness ==
  /\ last.op = "set" /\ last.dev = "p1" /\ ~last.value
  /\ Len(last.reqs) = 1
  /\ last.reqs[1].payload.encrypt
  /\ EnvelopeBody(last.reqs[1]) = PlugObj(PowerStateOff)
  /\ ~handlers["p1"][1].on

\* the record fails to decode under the configuration: the extraction throws
\* or yields no payload
DecodeFails(service) ==
  \/ extractDataFromDnsService(service, DeviceConfiguration(service, config)).threw # "none"
  \/ extractDataFromDnsService(service, DeviceConfiguration(service, config)).value = Undefined

\* C3: a discovery update whose record fails to decode (missing key,
\* malformed JSON, bad IV) leaves every handler object, and with it every
\* outlet value, exactly as it was, and sends nothing.
C3_FailedUpdateKeepsState ==
  [][(last'.op = "update" /\ DecodeFails(last'.service)) =>
       /\ handlers' = handlers
       /\ registered' = registered
       /\ inflight' = inflight]_vars

\* an update with a record that does not decode reached a seeded strip
C3_Witness ==
  /\ last.op = "update" /\ last.dev = "s1"
  /\ DecodeFails(last.service)
  /\ handlers["s1"] # << >>
  /\ handlers["s1"][1].listeners # << >>

\* the errors of the decode path: an IV that is not 16 bytes, ciphertext
\* that does not decrypt, text that is not JSON
DecodeErrors == {"ERR_CRYPTO_INVALID_IV", "ERR_OSSL_BAD_DECRYPT", "SyntaxError"}

\* C4: no failure of the decode path escapes the discovery handler as an
\* exception.
C4_DecodeFailureNeverEscapes ==
  (last.op = "available" /\ ~last.parsedUndefined) => last.threw \notin DecodeErrors

\* C5: for a record of a device marked encrypted whose deviceKey is absent,
\* decrypt is not invoked and JSON.parse is not called on undefined.
C5_MissingKeyNeverParses ==
  (last.op = "available" /\ last.service.encrypt = "true" /\ ~config[last.dev].has) =>
    (~last.decryptCalled /\ ~last.parsedUndefined)

\* C6: for a device marked encrypted whose deviceKey is absent or empty, no
\* decode of the payload is attempted and no command is sent.
C6_NoKeyNoDecodeNoCommand ==
  (/\ last.op = "available" /\ last.service.encrypt = "true"
   /\ (~config[last.dev].has \/ config[last.dev].v = "")) =>
    (~last.decryptCalled /\ last.reqs = << >>)

\* C7: when a command fails to send (the promise of doPost rejects), nothing
\* is thrown, no callback is called, nothing is sent again and every handler
\* object keeps the state it recorded.
C7_FailedSendKeepsState ==
  [][last'.op = "rejected" =>
       /\ handlers' = handlers
       /\ registered' = registered
       /\ last'.threw = "none"
       /\ last'.cb = << >>
       /\ last'.reqs = << >>
       /\ BagCardinality(inflight') = BagCardinality(inflight) - 1]_vars

\* the handler object holds for the outlet another value than the record it
\* was seeded from
Toggled(h, outlet) ==
  \E e \in Entries(h.initialData.switches) :
    e.outlet = outlet /\ h.states.el[outlet] # (e.switch = PowerStateOn)

\* a command of a strip failed after a setOn changed an outlet, and the
\* strip still holds the changed value
C7_Witness ==
  /\ last.op = "rejected" /\ last.dev = "s1"
  /\ handlers["s1"] # << >>
  /\ \E k \in 1 .. Len(handlers["s1"][1].listeners) :
       Toggled(handlers["s1"][1], handlers["s1"][1].listeners[k])

\* the handler object holds value for the outlet
Recorded(h, outlet, value) ==
  IF h.kind = "outlet" THEN h.on = value
  ELSE ArrayHas(h.states, outlet) /\ h.states.el[outlet] = value

\* C8: a run of a set-handler (setOn of a plug, setOn of a strip) records the
\* value, posts its request and calls the host's callback with success, the
\* request still pending when the run ends; the settling of a request calls
\* no callback and changes no handler object.
C8_SetHandlerReturnsAtOnce ==
  [][/\ last'.op = "set" =>
          /\ Len(Listening(handlers[last'.dev], last'.outlet)) > 0
          /\ Len(last'.cb) = Len(Listening(handlers[last'.dev], last'.outlet))
          /\ \A k \in 1 .. Len(last'.cb) : last'.cb[k] = Callback("null", JsUndefined)
          /\ Len(last'.reqs) = Len(last'.cb)
          /\ \A k \in 1 .. Len(last'.reqs) : BagIn(last'.reqs[k], inflight')
          /\ BagCardinality(inflight') = BagCardinality(inflight) + Len(last'.reqs)
          /\ last'.threw = "none"
          /\ \A k \in 1 .. Len(handlers[last'.dev]) :
               Listens(handlers[last'.dev][k], last'.outlet) =>
                 Recorded(handlers'[last'.dev][k], last'.outlet, last'.value)
     /\ last'.op \in {"resolved", "rejected"} =>
          /\ last'.cb = << >>
          /\ handlers' = handlers]_vars

\* the setOn of a strip has called back while its request is pending
C8_Witness ==
  /\ last.op = "set" /\ last.dev = "s1"
  /\ last.cb = << Callback("null", JsUndefined) >>
  /\ Len(last.reqs) = 1
  /\ BagIn(last.reqs[1], inflight)
  /\ Recorded(handlers["s1"][1], last.outlet, last.value)

\* what a handler object holds in memory for the outlet
InMemory(h, outlet) ==
  IF h.kind = "outlet" THEN JsBool(h.on) ELSE JsBool(h.states.el[outlet])

\* C9: a run of a get-handler (getOn of a plug, getOn of a strip,
\* getOutletInUse) calls back within the run with the value held in memory,
\* posts no request, and changes neither a handler object nor the pending
\* requests.
C9_GetHandlerAnswersFromMemory ==
  [][last'.op \in {"get", "getOutletInUse"} =>
       /\ handlers' = handlers
       /\ inflight' = inflight
       /\ registered' = registered
       /\ last'.reqs = << >>
       /\ last'.threw = "none"
       /\ Len(Listening(handlers[last'.dev], last'.outlet)) > 0
       /\ Len(last'.cb) = Len(Listening(handlers[last'.dev], last'.outlet))
       /\ \A k \in 1 .. Len(last'.cb) :
            last'.cb[k] =
              Callback("null",
                       IF last'.op = "get"
                       THEN InMemory(Listening(handlers[last'.dev], last'.outlet)[k],
                                     last'.outlet)
                       ELSE JsNumber(1))]_vars

\* getOn of a strip answered true while a request was pending
C9_Witness ==
  /\ last.op = "get" /\ last.dev = "s1"
  /\ last.cb = << Callback("null", JsBool(TRUE)) >>
  /\ BagCardinality(inflight) > 0

\* the body a command posted in the latest run has to carry, where the run
\* tells: {} for info, {switch} for the switch of a plug
BodyExpected(body) ==
  IF last.op = "available" THEN body = EmptyObj
  ELSE IF last.op = "set" /\ last.dev \in PlugDevices
    THEN body = PlugObj(PowerOf(last.value))
  ELSE body.t = "strip"

\* the envelope is encrypted: encrypt is true, iv is there and data is the
\* base64 ciphertext, under the key and this iv, of the JSON of the body
EncryptedEnvelope(req, key) ==
  /\ req.payload.encrypt = TRUE
  /\ req.payload.iv.has
  /\ EnvelopeText(req).threw = "none"
  /\ EnvelopeBody(req) # SyntaxError
  /\ BodyExpected(EnvelopeBody(req))
  /\ req.payload.data =
       Base64Text(encrypt(JsonStringify(EnvelopeBody(req)), key,
                          Base64Bytes(req.payload.iv.v)).data)

\* the envelope is plain: encrypt is false, iv is omitted and data is the
\* JSON of the body
PlainEnvelope(req) ==
  /\ req.payload.encrypt = FALSE
  /\ ~req.payload.iv.has
  /\ JsonParse(req.payload.data) # SyntaxError
  /\ BodyExpected(JsonParse(req.payload.data))
  /\ req.payload.data = JsonStringify(JsonParse(req.payload.data))

\* C10: every command envelope is encrypted when the device has a deviceKey
\* (a key that is not empty) and plain otherwise.
C10_EnvelopeEncryptedIffKey ==
  \A k \in 1 .. Len(last.reqs) :
    IF config[last.reqs[k].payload.deviceid].has
       /\ config[last.reqs[k].payload.deviceid].v # ""
    THEN EncryptedEnvelope(last.reqs[k], config[last.reqs[k].payload.deviceid].v)
    ELSE PlainEnvelope(last.reqs[k])

\* an encrypted switch command of a plug was posted
C10_Witness ==
  /\ last.op = "set" /\ last.dev = "p1" /\ last.value
  /\ Len(last.reqs) > 0
  /\ last.reqs[1].payload.encrypt
  /\ last.reqs[1].payload.iv.has
  /\ last.reqs[1].payload.data # JsonStringify(PlugObj(PowerStateOn))

\* C11: in every envelope doApiCall builds, sequence is a string, the decimal
\* digits of the time in milliseconds (1700000000 gives "1700000000"), and
\* selfApikey is the string "123"; neither is a number.
C11_SequenceAndSelfApikeyAreStrings ==
  (pure.op = "output" /\ pure.fn = "doApiCall") =>
    /\ pure.out.payload.sequence = [js |-> "string", text |-> DecStr(pure.in.now)]
    /\ pure.out.payload.selfApikey = [js |-> "string", text |-> << "1", "2", "3" >>]
    /\ pure.in.now = 1700000000 =>
         pure.out.payload.sequence.text
           = << "1", "7", "0", "0", "0", "0", "0", "0", "0", "0" >>

C11_Witness ==
  /\ pure.op = "output" /\ pure.fn = "doApiCall"
  /\ pure.in.now = 1700000000
  /\ pure.out.payload.encrypt

\* the fields of a TXT record in the order data1, data2, data3, data4, a
\* field taken only when every earlier one is there
InOrder(data) ==
  LET Has(n) == \A m \in 1 .. n : PieceKeys[m] \in DOMAIN data
      Part(n) == IF Has(n) THEN data[PieceKeys[n]] ELSE << >>
  IN  Part(1) \o Part(2) \o Part(3) \o Part(4)

Swapped(service) ==
  [service EXCEPT !.data = ("data1" :> service.data["data2"])
                           @@ ("data2" :> service.data["data1"])]

C13_DecryptInvertsEncrypt ==
  (pure.op = "output" /\ pure.fn = "decrypt") =>
    /\ pure.out.result.threw = "none"
    /\ pure.out.result.text = pure.in.plainText

C13_Witness ==
  /\ pure.op = "output" /\ pure.fn = "decrypt"
  /\ pure.in.apiKey = "k1"
  /\ Len(pure.in.plainText) > 4
  /\ pure.out.result.text = pure.in.plainText

\* C14: the key encrypt and decrypt hand to the cipher is the raw digest of
\* the secret, exactly 16 bytes long, which aes-128-cbc accepts; it is never
\* the 32 characters of the hex form.
C14_CipherKeyIsRawDigest ==
  (pure.op = "output" /\ pure.fn \in {"encrypt", "decrypt"}) =>
    /\ Len(pure.out.cryptkey) = 16
    /\ Len(pure.out.cryptkey) # 32
    /\ \A i \in 1 .. Len(pure.out.cryptkey) : pure.out.cryptkey[i] \in Bytes
    /\ CipherivError(pure.out.cryptkey, pure.in.rnd) = "none"
    /\ CipherivError(pure.out.cryptkey \o pure.out.cryptkey, pure.in.rnd)
         = "ERR_CRYPTO_INVALID_KEYLEN"

C14_Witness ==
  /\ pure.op = "output" /\ pure.fn = "encrypt"
  /\ pure.in.apiKey = "k2"
  /\ Len(pure.out.cryptkey) = 16
  /\ pure.out.result.data # << >>

\* the code unit of a character
CodeUnit(ch) ==
  IF ch = "_" THEN 95
  ELSE IF IndexOf(Upper, ch) > 0 THEN 64 + IndexOf(Upper, ch)
  ELSE 96 + IndexOf(Lower, ch)

\* a comes after b in the order of the code units
RECURSIVE CodeUnitGreater(_, _)
CodeUnitGreater(a, b) ==
  IF a = << >> THEN FALSE
  ELSE IF b = << >> THEN TRUE
  ELSE IF CodeUnit(Head(a)) # CodeUnit(Head(b)) THEN CodeUnit(Head(a)) > CodeUnit(Head(b))
  ELSE CodeUnitGreater(Tail(a), Tail(b))

\* a comes after b in the order of localeCompare
LocaleGreater(a, b) == localeCompare(a, b) > 0

KeySet(obj) == {obj[i].key : i \in 1 .. Len(obj)}

\* the keys of obj from the last to the first of the order Greater
Descending(obj, Greater(_, _)) ==
  [i \in 1 .. Len(obj) |->
     CHOOSE k \in KeySet(obj) :
       Cardinality({k2 \in KeySet(obj) : Greater(k2, k)}) = i - 1]

\* the request {country_code: "US", ts: "1", nonce: "n"}
ExampleParams == << SignFields[1], SignFields[2], SignFields[3] >>

ExampleSigned ==
  << "t", "s", "=", "1", "&", "n", "o", "n", "c", "e", "=", "n", "&" >>
  \o K_country_code \o << "=", "US" >>

\* C15 as stated: the signing string is the fields in descending
\* lexicographic order of their names (the order of the code units), each as
\* key=value, joined with '&'.
C15_SignedInCodeUnitOrder ==
  (pure.op = "output" /\ pure.fn = "dataToSign") =>
    pure.out = JoinPairs(pure.in.requestParams,
                         Descending(pure.in.requestParams, CodeUnitGreater))

\* C15, amended: the signing string is the fields in descending order of
\* localeCompare on their names (letters compared without case first, so
\* appVersion comes before appid), each as key=value, joined with '&'; for
\* {country_code: "US", ts: "1", nonce: "n"} it is
\* "ts=1&nonce=n&country_code=US".
C15_SignedInLocaleOrder ==
  (pure.op = "output" /\ pure.fn = "dataToSign") =>
    /\ pure.out = JoinPairs(pure.in.requestParams,
                            Descending(pure.in.requestParams, LocaleGreater))
    /\ pure.in.requestParams = ExampleParams => pure.out = ExampleSigned

C15_Witness ==
  /\ pure.op = "output" /\ pure.fn = "dataToSign"
  /\ Len(pure.in.requestParams) = 10
  /\ SubSeq(pure.out, 1, 10) = K_version \o << "=", "6", "&" >>

\* response.data.at is a token
HasToken(response) == response.at.has /\ response.at.v # ""

\* C16: a login answered with status 200 and no `at` token rejects, with the
\* error of the missing token, and does not resolve.
C16_LoginWithoutTokenRejects ==
  (/\ settled.op = "login" /\ settled.via = "then"
   /\ ~HasToken(settled.response)) =>
    /\ settled.state = "rejected"
    /\ settled.reason.msg = "Server did not response with an authentication token."
    /\ settled.result = Undefined

C16_Witness ==
  /\ settled.op = "login" /\ settled.via = "then"
  /\ ~settled.response.at.has
  /\ ~settled.response.error.has
  /\ settled.state = "rejected"

\* C17: a login that fails leaves the stored authenticationToken as it was.
C17_FailedLoginKeepsToken ==
  [][(/\ \E p \in promises : p.op = "login" /\ p \notin promises'
      /\ settled'.op = "login" /\ settled'.state = "rejected") =>
       api'.config.authenticationToken = api.config.authenticationToken]_vars

\* C18: every listDevices request carries Authorization: Bearer <token> with
\* a token that is set: one a login returned or the one of the configuration.
C18_ListDevicesCarriesToken ==
  \A p \in promises :
    p.op = "listDevices" =>
      /\ p.request.Authorization[1] = "Bearer"
      /\ p.request.Authorization[2] \in {"t1", "t2", "cfg"}

\* C19: a response with a non-zero error field makes the call fail with that
\* error code: the promise rejects and no result is delivered.
C19_ErrorResponseFailsCall ==
  (/\ settled.op \in {"login", "listDevices", "getRegion"}
   /\ settled.via = "then"
   /\ settled.response.error.has /\ settled.response.error.v # 0) =>
    /\ settled.state = "rejected"
    /\ settled.reason.code = settled.response.error.v

Observed(h) == {h.listeners[k] : k \in 1 .. Len(h.listeners)}

\* the switches array of a command has an entry at each of its positions
NoEmptyEntry(switches) == DOMAIN switches.el = 0 .. (switches.len - 1)

\* C21: every Switches command the strip's setOn sends holds entries with
\* unique outlet indices, the set of them equal to the set of outlets the
\* handler observed, and no empty entry, also when the outlets reported do
\* not start at 0.
C21_SwitchesMatchObserved ==
  [][(last'.op = "set" /\ DeviceType(last'.dev) = "strip") =>
       \A k \in 1 .. Len(last'.reqs) :
         /\ EnvelopeBody(last'.reqs[k]) # SyntaxError
         /\ NoEmptyEntry(EnvelopeBody(last'.reqs[k]).switches)
         /\ {e.outlet : e \in Entries(EnvelopeBody(last'.reqs[k]).switches)}
              = Observed(Listening(handlers[last'.dev], last'.outlet)[k])
         /\ \A i, j \in DOMAIN EnvelopeBody(last'.reqs[k]).switches.el :
              EnvelopeBody(last'.reqs[k]).switches.el[i].outlet
                = EnvelopeBody(last'.reqs[k]).switches.el[j].outlet => i = j]_vars

\* the values of the outlets in the switches array of a command the device
\* applied, against the states a handler object holds
DeviceDiffers(body, h) ==
  /\ body.t = "strip"
  /\ \E i \in DOMAIN h.states.el :
       /\ i \in DOMAIN body.switches.el
       /\ body.switches.el[i].switch # PowerOf(h.states.el[i])

\* C22: two setOn calls on different outlets of one strip can race.  Every
\* command carries the whole strip and the device takes the command it
\* answers last for its state; the answer changes no handler object, calls no
\* callback, throws nothing and sends nothing.  So the command sent first,
\* answered last, puts back the value the second call changed (the witness),
\* and the program reports no error.
C22_AnswerIsSilent ==
  [][last'.op = "resolved" =>
       /\ handlers' = handlers
       /\ last'.cb = << >> /\ last'.threw = "none" /\ last'.reqs = << >>
       /\ \A req \in BagToSet(inflight) :
            (inflight' = inflight (-) SetToBag({req})
             /\ req.uri.path = "/zeroconf/switches"
             /\ EnvelopeBody(req) # SyntaxError /\ DeviceReads(req).threw = "none")
              => applied'[req.payload.deviceid] = EnvelopeBody(req)]_vars

\* the strip seeded with outlet 0 on and outlet 1 off was told to switch
\* outlet 0 off, then outlet 1 on; both commands are answered, the first
\* one last: the handler holds off and on, the device off and off
C22_Witness ==
  /\ last.op = "resolved" /\ last.dev = "s1" /\ last.threw = "none"
  /\ inflight = EmptyBag
  /\ Len(handlers["s1"]) = 1
  /\ handlers["s1"][1].states = ArrayOf(<< FALSE, TRUE >>)
  /\ applied["s1"].t = "strip"
  /\ applied["s1"].switches
       = ArrayOf(<< StripSwitch(PowerStateOff, 0), StripSwitch(PowerStateOff, 1) >>)
  /\ DeviceDiffers(applied["s1"], handlers["s1"][1])

\* how many of the requests of a sequence equal req
Sent(reqs, req) == Cardinality({k \in 1 .. Len(reqs) : reqs[k] = req})

SettleOps == {"resolved", "rejected"}

\* C23: each run of a setOn listener issues exactly one command, the k-th
\* command of a set event being the one of the k-th listener that ran; every
\* command issued is on the network as a request of its own (none is merged
\* with an equal one, none is left out); the settling of a request, its
\* failure included, takes that one request away and sends nothing again;
\* reads, updates and departures send nothing.
C23_OneCommandPerSetOn ==
  [][/\ last'.op = "set" =>
          /\ Len(last'.reqs) = Len(Listening(handlers[last'.dev], last'.outlet))
          /\ \A k \in 1 .. Len(last'.reqs) :
               /\ last'.reqs[k].payload.deviceid
                    = Listening(handlers[last'.dev], last'.outlet)[k].device.deviceId
               /\ last'.reqs[k].uri.path
                    = (IF Listening(handlers[last'.dev], last'.outlet)[k].kind = "outlet"
                       THEN "/zeroconf/switch" ELSE "/zeroconf/switches")
          /\ BagCardinality(inflight') = BagCardinality(inflight) + Len(last'.reqs)
          /\ \A req \in BagToSet(inflight') :
               CopiesIn(req, inflight') = CopiesIn(req, inflight) + Sent(last'.reqs, req)
     /\ last'.op \in SettleOps =>
          /\ last'.reqs = << >>
          /\ BagCardinality(inflight') = BagCardinality(inflight) - 1
          /\ \A req \in BagToSet(inflight') : CopiesIn(req, inflight') <= CopiesIn(req, inflight)
     /\ last'.op \in {"get", "getOutletInUse", "update", "unavailable"} =>
          inflight' = inflight]_vars

\* a set event of the plug with two handler objects bound: each ran and
\* sent its command, the two commands are equal and both are on the network
C23_Witness ==
  /\ last.op = "set" /\ last.dev = "p1"
  /\ Len(last.reqs) = 2
  /\ last.reqs[1] = last.reqs[2]
  /\ CopiesIn(last.reqs[1], inflight) = 2

\* the payload an update of the plug decodes to under the configuration
Decoded(service) ==
  extractDataFromDnsService(service, DeviceConfiguration(service, config)).value

\* C24: after an 'updated' event whose record decodes, every handler object
\* of the plug holds the state the record reports, so that getOn answers it.
C24_UpdateReachesState ==
  [][(last'.op = "update" /\ last'.dev \in PlugDevices /\ ~DecodeFails(last'.service)
      /\ Decoded(last'.service).t = "plug") =>
       \A k \in 1 .. Len(handlers'[last'.dev]) :
         handlers'[last'.dev][k].on = (Decoded(last'.service).switch = PowerStateOn)]_vars

\* C25: there is one DeviceConfiguration for each device, made once and
\* left as it was made: the handler objects bound to the accessory of a
\* device all hold the same one, however often the device is announced.
C25_OneIdentityPerDevice ==
  \A d \in Devices :
    \A j, k \in 1 .. Len(handlers[d]) : handlers[d][j].device = handlers[d][k].device

\* C26: every read of OutletInUse, of the outlet of a plug and of each
\* outlet of a strip, is answered callback(null, 1) by every listener bound,
\* whatever the handler objects hold; it changes nothing and sends nothing.
C26_OutletInUseAlways ==
  [][last'.op = "getOutletInUse" =>
       /\ Len(last'.cb) = Len(Listening(handlers[last'.dev], last'.outlet))
       /\ Len(last'.cb) > 0
       /\ \A k \in 1 .. Len(last'.cb) : last'.cb[k] = Callback("null", JsNumber(1))
       /\ handlers' = handlers
       /\ last'.reqs = << >>]_vars

\* OutletInUse was read of outlet 2 of the strip seeded with outlet 2 on,
\* after it was switched off
C26_Witness ==
  /\ last.op = "getOutletInUse" /\ last.dev = "s1" /\ last.outlet = 2
  /\ Len(handlers["s1"]) = 1
  /\ ArrayHas(handlers["s1"][1].states, 2)
  /\ ~handlers["s1"][1].states.el[2]
  /\ last.cb = << Callback("null", JsNumber(1)) >>

\* C27: whatever cached accessories were restored and whatever 'available'
\* events arrived, registerPlatformAccessories was called at most once for
\* each device id, and never for a device restored from the cache.
C27_RegisteredAtMostOnce ==
  \A d \in Devices :
    /\ registered[d] <= 1
    /\ d \in accessories => registered[d] = 0

StripDevices == {d \in Devices : DeviceType(d) = "strip"}

\* the handler object went from pre to post by a setOn(outlet, value) and
\* sent req: post holds value for the outlet and what pre held for every
\* other outlet, and req carries for every outlet what post holds
CarriesLatest(req, pre, post, outlet, value) ==
  /\ EnvelopeBody(req) # SyntaxError
  /\ EnvelopeBody(req).t = "strip"
  /\ DOMAIN post.states.el = DOMAIN pre.states.el \cup {outlet}
  /\ post.states.el[outlet] = value
  /\ \A i \in DOMAIN pre.states.el \ {outlet} : post.states.el[i] = pre.states.el[i]
  /\ DOMAIN EnvelopeBody(req).switches.el = DOMAIN post.states.el
  /\ \A i \in DOMAIN post.states.el :
       EnvelopeBody(req).switches.el[i] = StripSwitch(PowerOf(post.states.el[i]), i)

\* C28: the states of a strip's handler object are seeded by the constructor
\* and changed by setOn alone, which writes the value of its outlet and then
\* sends what the object holds for every outlet: so the k-th command carries,
\* for every outlet, the value of the latest of the first k setOn calls on
\* it, or the seeded value, and never the value an outlet had before an
\* earlier setOn changed it.
C28_CommandCarriesLatest ==
  [][/\ (last'.op = "set" /\ last'.dev \in StripDevices) =>
          /\ Len(last'.reqs) = Len(Listening(handlers[last'.dev], last'.outlet))
          /\ Len(last'.reqs) = Len(Listening(handlers'[last'.dev], last'.outlet))
          /\ \A k \in 1 .. Len(last'.reqs) :
               CarriesLatest(last'.reqs[k],
                             Listening(handlers[last'.dev], last'.outlet)[k],
                             Listening(handlers'[last'.dev], last'.outlet)[k],
                             last'.outlet, last'.value)
     /\ (last'.op # "set") =>
          \A d \in StripDevices :
            /\ Len(handlers'[d]) >= Len(handlers[d])
            /\ \A k \in 1 .. Len(handlers[d]) :
                 handlers'[d][k].states = handlers[d][k].states]_vars

\* the strip seeded with outlet 0 on and outlet 1 off, after outlet 0 was
\* switched off, was told to switch outlet 1 on: the command carries off for
\* outlet 0 and on for outlet 1
C28_Witness ==
  /\ last.op = "set" /\ last.dev = "s1" /\ last.outlet = 1 /\ last.value
  /\ Len(last.reqs) = 1
  /\ handlers["s1"][1].initialData.switches
       = ArrayOf(<< StripSwitch(PowerStateOn, 0), StripSwitch(PowerStateOff, 1) >>)
  /\ EnvelopeBody(last.reqs[1]).switches
       = ArrayOf(<< StripSwitch(PowerStateOff, 0), StripSwitch(PowerStateOn, 1) >>)

\* the handler object went from pre to post by a setOn(outlet, value) and
\* sent req: no other outlet's entry changed, the payload it was seeded with
\* is as it was, and the command carries its configure, pulses, sledOnline
\* and staMac
KeepsFrame(req, pre, post, outlet) ==
  /\ \A i \in DOMAIN pre.states.el \ {outlet} :
       /\ i \in DOMAIN post.states.el
       /\ post.states.el[i] = pre.states.el[i]
  /\ DOMAIN post.states.el \subseteq DOMAIN pre.states.el \cup {outlet}
  /\ post.initialData = pre.initialData
  /\ post.device = pre.device /\ post.listeners = pre.listeners
  /\ EnvelopeBody(req) # SyntaxError
  /\ EnvelopeBody(req).configure = pre.initialData.configure
  /\ EnvelopeBody(req).pulses = pre.initialData.pulses
  /\ EnvelopeBody(req).sledOnline = pre.initialData.sledOnline
  /\ EnvelopeBody(req).staMac = pre.initialData.staMac

\* C29: the strip's setOn(i, v) changes the local entry of outlet i alone
\* and sends configure, pulses, sledOnline and staMac as they were decoded
\* when the handler object was seeded; no step, a discovery update included,
\* changes the payload a handler object was seeded with.
C29_SetOnFrame ==
  [][/\ (last'.op = "set" /\ last'.dev \in StripDevices) =>
          /\ Len(last'.reqs) = Len(Listening(handlers[last'.dev], last'.outlet))
          /\ Len(last'.reqs) = Len(Listening(handlers'[last'.dev], last'.outlet))
          /\ \A k \in 1 .. Len(last'.reqs) :
               KeepsFrame(last'.reqs[k],
                          Listening(handlers[last'.dev], last'.outlet)[k],
                          Listening(handlers'[last'.dev], last'.outlet)[k],
                          last'.outlet)
     /\ \A d \in StripDevices :
          /\ Len(handlers'[d]) >= Len(handlers[d])
          /\ \A k \in 1 .. Len(handlers[d]) :
               handlers'[d][k].initialData = handlers[d][k].initialData]_vars

\* the strip seeded with outlet 1 off and outlet 2 on, configure cfgB, was
\* told to switch outlet 1 on: outlet 2 is on as before and the command
\* carries cfgB, plsA, on and mac1
C29_Witness ==
  /\ last.op = "set" /\ last.dev = "s1" /\ last.outlet = 1 /\ last.value
  /\ Len(last.reqs) = 1
  /\ handlers["s1"][1].initialData.configure = "cfgB"
  /\ handlers["s1"][1].states.el[2]
  /\ EnvelopeBody(last.reqs[1]).configure = "cfgB"
  /\ EnvelopeBody(last.reqs[1]).pulses = "plsA"
  /\ EnvelopeBody(last.reqs[1]).sledOnline = PowerStateOn
  /\ EnvelopeBody(last.reqs[1]).staMac = "mac1"

\* the record decodes under the configuration and yields no payload
NoPayload(service) ==
  /\ extractDataFromDnsService(service, DeviceConfiguration(service, config)).threw = "none"
  /\ Falsy(extractDataFromDnsService(service, DeviceConfiguration(service, config)).value)

\* a handler object of a strip whose constructor found no payload
Unseeded(h) == h.kind = "strip" /\ Falsy(h.initialData)

\* C30: a strip's handler object constructed without a payload has no
\* get/set listener and no state, and stays so; while a strip has no other
\* handler object, no listener of it can run and no Switches command goes to
\* it.  A plug's handler object constructed without a payload holds off; its
\* value changes in set steps alone and getOn answers it: getOn answers
\* false until the first setOn.
C30_NoPayloadStaysUnseeded ==
  [][/\ \A d \in StripDevices :
          /\ \A k \in 1 .. Len(handlers'[d]) :
               Unseeded(handlers'[d][k]) =>
                 /\ handlers'[d][k].listeners = << >>
                 /\ handlers'[d][k].states = EmptyArray
          /\ \A k \in 1 .. Len(handlers[d]) :
               Unseeded(handlers[d][k]) =>
                 /\ Len(handlers'[d]) >= k
                 /\ handlers'[d][k] = handlers[d][k]
          /\ (handlers[d] # << >> /\ \A k \in 1 .. Len(handlers[d]) : Unseeded(handlers[d][k])) =>
               /\ ~(last'.dev = d /\ last'.op \in {"set", "get", "getOutletInUse"})
               /\ \A k \in 1 .. Len(last'.reqs) :
                    ~(last'.reqs[k].payload.deviceid = d
                      /\ last'.reqs[k].uri.path = "/zeroconf/switches")
     /\ (last'.op = "available" /\ last'.dev \in PlugDevices /\ last'.threw = "none"
         /\ NoPayload(last'.service)) =>
          /\ handlers'[last'.dev] # << >>
          /\ ~handlers'[last'.dev][Len(handlers'[last'.dev])].on
          /\ handlers'[last'.dev][Len(handlers'[last'.dev])].listeners = << 0 >>
     /\ (last'.op # "set") =>
          \A d \in PlugDevices : \A k \in 1 .. Len(handlers[d]) :
            /\ Len(handlers'[d]) >= k
            /\ handlers'[d][k].on = handlers[d][k].on
     /\ (last'.op = "get" /\ last'.dev \in PlugDevices) =>
          /\ Len(last'.cb) = Len(handlers[last'.dev])
          /\ \A k \in 1 .. Len(last'.cb) :
               last'.cb[k] = Callback("null", JsBool(handlers[last'.dev][k].on))]_vars

\* the strip was announced with the record null and has a handler object
\* without listeners; the plug was just announced with the record null and
\* its handler object holds off
C30_Witness ==
  /\ Len(handlers["s1"]) = 1
  /\ Unseeded(handlers["s1"][1])
  /\ handlers["s1"][1].listeners = << >>
  /\ registered["s1"] = 1
  /\ last.op = "available" /\ last.dev = "p1" /\ last.threw = "none"
  /\ NoPayload(last.service)
  /\ Len(handlers["p1"]) = 1
  /\ ~handlers["p1"][1].on

\* the handler object h was constructed from the payload: a plug holds
\* whether its switch is on, a strip holds for the outlet of every entry
\* whether the switch of the entry is on, and for no other outlet
SeededFrom(h, payload) ==
  IF h.kind = "outlet"
  THEN payload.t = "plug" /\ h.on = (payload.switch = PowerStateOn)
  ELSE /\ payload.t = "strip"
       /\ DOMAIN h.states.el = {e.outlet : e \in Entries(payload.switches)}
       /\ \A e \in Entries(payload.switches) :
            /\ h.states.el[e.outlet] = (e.switch = PowerStateOn)
            /\ Listens(h, e.outlet)

\* what getOn of the handler object h answers from what h holds
Held(h, outlet) ==
  IF h.kind = "outlet" THEN JsBool(h.on)
  ELSE IF ArrayHas(h.states, outlet) THEN JsBool(h.states.el[outlet])
  ELSE JsUndefined

\* C31: the handler object constructed from a record that decodes to a
\* payload holds the payload's value: a plug on exactly when switch is on,
\* a strip, for each outlet, on exactly when the entry of the outlet has
\* switch on.  What a handler object holds changes in set steps alone, and
\* getOn answers what it holds: so before any setOn, getOn answers the
\* decoded value.
C31_GetOnAnswersSeed ==
  [][/\ (last'.op = "available" /\ last'.threw = "none"
         /\ ~DecodeFails(last'.service) /\ ~NoPayload(last'.service)) =>
          /\ handlers'[last'.dev] # << >>
          /\ SeededFrom(handlers'[last'.dev][Len(handlers'[last'.dev])],
                        Decoded(last'.service))
     /\ (last'.op # "set") =>
          \A d \in Devices : \A k \in 1 .. Len(handlers[d]) :
            /\ Len(handlers'[d]) >= k
            /\ handlers'[d][k].on = handlers[d][k].on
            /\ handlers'[d][k].states = handlers[d][k].states
     /\ (last'.op = "get") =>
          /\ Len(last'.cb) = Len(Listening(handlers[last'.dev], last'.outlet))
          /\ Len(last'.cb) > 0
          /\ \A k \in 1 .. Len(last'.cb) :
               last'.cb[k]
                 = Callback("null", Held(Listening(handlers[last'.dev], last'.outlet)[k],
                                         last'.outlet))]_vars

\* getOn(2) of the strip seeded with outlet 1 off and outlet 2 on, which
\* holds what it was seeded with, answered true
C31_Witness ==
  /\ last.op = "get" /\ last.dev = "s1" /\ last.outlet = 2
  /\ Len(handlers["s1"]) = 1
  /\ handlers["s1"][1].initialData.switches
       = ArrayOf(<< StripSwitch(PowerStateOff, 1), StripSwitch(PowerStateOn, 2) >>)
  /\ SeededFrom(handlers["s1"][1], handlers["s1"][1].initialData)
  /\ last.cb = << Callback("null", JsBool(TRUE)) >>

====
